---- MODULE Spec2Model ----
(***************************************************************************)
(* A model of the retrieval engine of the Zendesk client: the incremental  *)
(* (continuation-following) walkers, the list-all walkers, the one-by-one  *)
(* walkers, the single-call operation do and the deduplicators.  One call  *)
(* of one operation runs per behaviour; `frame` holds                      *)
(* the locals of that call, `log` what the call did to the outside world   *)
(* (requests issued, seconds slept), `server` the script the remote side   *)
(* follows and `client` the fields of the client struct.                   *)
(***************************************************************************)
EXTENDS Integers, Sequences, FiniteSets, TLC

VARIABLES client, server, frame, log

vars == <<client, server, frame, log>>

(***************************************************************************)
(* Bounds of the model.                                                    *)
(***************************************************************************)
MaxID == 2          \* record identifiers are 1..MaxID
MaxTime == 2        \* last-modified instants are 1..MaxTime; 0 is the nil pointer
MaxList == 3        \* longest list handed to a deduplicator
endID == 4          \* upper bound of the one-by-one scan (10000 in the source)
MaxRateLimits == 2  \* 429 responses the server gives during one call
MaxSleeps == 3      \* sleeps after which a call that never stops is cut off
MaxPages == 3       \* pages of the longest page chain
MaxFetches == 7      \* requests after which a copied walker that never stops is cut off

(***************************************************************************)
(* Strings.  Go strings are modelled by TLA+ strings; indices are 0-based   *)
(* as in Go.                                                               *)
(***************************************************************************)
\* s[i:] is legal in Go when 0 <= i <= len(s); anything else panics.
SliceOK(s, i) == 0 <= i /\ i <= Len(s)

SliceFrom(s, i) == SubSeq(s, i + 1, Len(s))

HasPrefix(s, p) == Len(p) <= Len(s) /\ SubSeq(s, 1, Len(p)) = p

\* strings.Index: the 0-based position of the first occurrence of sub, or -1.
RECURSIVE IndexFrom(_, _, _)
IndexFrom(s, sub, i) ==
    IF i + Len(sub) > Len(s) THEN -1
    ELSE IF SubSeq(s, i + 1, i + Len(sub)) = sub THEN i
    ELSE IndexFrom(s, sub, i + 1)

Index(s, sub) == IndexFrom(s, sub, 0)

Digits == <<"0", "1", "2", "3", "4", "5", "6", "7", "8", "9">>

IsDigit(ch) == \E d \in 1..10 : Digits[d] = ch

DigitVal(ch) == (CHOOSE d \in 1..10 : Digits[d] = ch) - 1

RECURSIVE ParseDigits(_, _)
ParseDigits(s, acc) ==
    IF s = "" THEN [val |-> acc, err |-> "nil"]
    ELSE IF ~IsDigit(SubSeq(s, 1, 1)) THEN [val |-> 0, err |-> "invalid syntax"]
    ELSE ParseDigits(SubSeq(s, 2, Len(s)), 10 * acc + DigitVal(SubSeq(s, 1, 1)))

\* strconv.ParseInt(s, 10, 64): an optional sign and decimal digits; the
\* value is 0 when the syntax is wrong.
ParseInt(s) ==
    IF s = "" THEN [val |-> 0, err |-> "invalid syntax"]
    ELSE IF SubSeq(s, 1, 1) = "-" \/ SubSeq(s, 1, 1) = "+"
    THEN IF Len(s) = 1 THEN [val |-> 0, err |-> "invalid syntax"]
         ELSE LET p == ParseDigits(SubSeq(s, 2, Len(s)), 0)
              IN  IF SubSeq(s, 1, 1) = "-" THEN [val |-> 0 - p.val, err |-> p.err] ELSE p
    ELSE ParseDigits(s, 0)

(***************************************************************************)
(* Records.  ID and UpdatedAt are the fields the deduplicators read; Name   *)
(* stands for the rest of the record.  UpdatedAt is a *time.Time: 0 is nil. *)
(***************************************************************************)
IDs == 1..MaxID

Times == 0..MaxTime

Names == {"a", "b"}

Records == [ID : IDs, UpdatedAt : Times, Name : Names]

\* fmt's %v of a *time.Time: the Stringer of the value, "<nil>" for nil.
TimeString(t) ==
    IF t = 0 THEN "<nil>"
    ELSE "2019-01-0" \o ToString(t) \o " 00:00:00 +0000 UTC"

\* The key of getUniqUsers: fmt.Sprintf("%v %v\n", user.ID, user.UpdatedAt).
UserKey(user) == ToString(user.ID) \o " " \o TimeString(user.UpdatedAt) \o "\n"

RECURSIVE UniqByID(_, _, _)
UniqByID(tickets, keys, result) ==
    IF tickets = <<>> THEN result
    ELSE LET ticket == Head(tickets)
         IN  IF ticket.ID \in keys
             THEN UniqByID(Tail(tickets), keys, result)
             ELSE UniqByID(Tail(tickets), keys \cup {ticket.ID}, Append(result, ticket))

RECURSIVE ReversedUniqByID(_, _, _)
ReversedUniqByID(tickets, keys, result) ==
    IF tickets = <<>> THEN result
    ELSE LET ticket == Head(tickets)
         IN  IF ticket.ID \in keys
             THEN ReversedUniqByID(Tail(tickets), keys, result)
             ELSE ReversedUniqByID(Tail(tickets), keys \cup {ticket.ID}, <<ticket>> \o result)

\* Mutant: the new element is put in front of the result.
getUniqTicketsPrepend(tickets) == ReversedUniqByID(tickets, {}, <<>>)

\* Mutant: nothing is ever recorded as seen.
getUniqTicketsNoKeys(tickets) == tickets

getUniqTickets(tickets) == UniqByID(tickets, {}, <<>>)

RECURSIVE UniqByKey(_, _, _)
UniqByKey(users, keys, result) ==
    IF users = <<>> THEN result
    ELSE LET user == Head(users)
             key == UserKey(user)
         IN  IF key \in keys
             THEN UniqByKey(Tail(users), keys, result)
             ELSE UniqByKey(Tail(users), keys \cup {key}, Append(result, user))

\* Mutant: users are keyed by ID alone, as tickets are.
getUniqUsersByID(users) == UniqByID(users, {}, <<>>)

getUniqUsers(users) == UniqByKey(users, {}, <<>>)

(***************************************************************************)
(* The transport.  A request resolves its endpoint against the client's    *)
(* base URL; the server answers a URL it knows with the response of its     *)
(* script, any other URL with 404, and may answer any request with 429.    *)
(***************************************************************************)
Bases == {"https://philhelp.zendesk.com", "https://acme.zendesk.com"}

\* The client and the server of a behaviour that sends nothing.
NoClient == [baseURL |-> ""]

NoServer == [routes |-> <<>>]

\* Nothing requested, nothing received, no sleep yet.
NoLog == [requests |-> <<>>, responses |-> <<>>, sleeps |-> <<>>]

RetryAfterValues == {"1", "2", "", "soon"}

\* new(APIPayload): Records is the list field of the call's resource kind,
\* Ticket the single-record field (empty when the pointer is nil).
NewPayload == [Records |-> <<>>, Ticket |-> <<>>, NextPage |-> ""]

NotFoundResponse == [StatusCode |-> 404, RetryAfter |-> "", Body |-> NewPayload]

ErrorResponse == [StatusCode |-> 500, RetryAfter |-> "", Body |-> NewPayload]

RateLimitedResponse(after) == [StatusCode |-> 429, RetryAfter |-> after, Body |-> NewPayload]

\* The nil *http.Response that c.request returns together with an error.
\* No response of a server has the status 0.
NilResponse == [StatusCode |-> 0, RetryAfter |-> "", Body |-> NewPayload]

\* The error c.request returns with a response.
RequestErr(res) == IF res = NilResponse THEN "transport error" ELSE "nil"

\* The choices for one request: the server serves its script, or it
\* rate-limits, or the request fails before any response arrives.
Injections == {"serve", "fail"} \cup {"429 " \o after : after \in RetryAfterValues}

RateLimitsSoFar == Cardinality({i \in 1..Len(log.responses) : log.responses[i].StatusCode = 429})

CanInject(inj) == inj \in {"serve", "fail"} \/ RateLimitsSoFar < MaxRateLimits

\* url.ResolveReference: an absolute reference stands for itself, a rooted
\* path replaces the path of the base, any other path is put under "/".
ResolveReference(baseURL, rel) ==
    IF HasPrefix(rel, "http") THEN rel
    ELSE IF HasPrefix(rel, "/") \/ rel = "" THEN baseURL \o rel
    ELSE baseURL \o "/" \o rel

Transport(url, inj) ==
    IF inj = "fail" THEN NilResponse
    ELSE IF inj # "serve" THEN RateLimitedResponse(SliceFrom(inj, 4))
    ELSE IF url \in DOMAIN server.routes THEN server.routes[url]
    ELSE NotFoundResponse

\* c.request: the response, and the log with the exchange added.
request(endpoint, inj) == Transport(ResolveReference(client.baseURL, endpoint), inj)

\* What the log keeps of a response.
Seen(res) == [StatusCode |-> res.StatusCode, RetryAfter |-> res.RetryAfter,
              NextPage |-> res.Body.NextPage]

LoggedTo(l, endpoint, inj) ==
    [l EXCEPT !.requests = Append(@, endpoint),
              !.responses = Append(@, Seen(request(endpoint, inj)))]

Logged(endpoint, inj) == LoggedTo(log, endpoint, inj)

\* unmarshall: an APIError for a status outside 200..299, else the body
\* decoded into out (a field the body leaves empty keeps its value).
unmarshall(res, out) ==
    IF res.StatusCode < 200 \/ res.StatusCode >= 300
    THEN [err |-> "APIError", out |-> out]
    ELSE [err |-> "nil",
          out |-> [Records |-> IF res.Body.Records = <<>> THEN out.Records ELSE res.Body.Records,
                   Ticket |-> IF res.Body.Ticket = <<>> THEN out.Ticket ELSE res.Body.Ticket,
                   NextPage |-> IF res.Body.NextPage = "" THEN out.NextPage ELSE res.Body.NextPage]]

NoRet == [records |-> <<>>, err |-> "nil"]

(***************************************************************************)
(* getOneByOne: the scan of the ticket identifiers startID .. endID-1.      *)
(***************************************************************************)
startID == 1

endpointPrefix == "/api/v2/tickets/"

endpointPostfix == ".json"

TicketEndpoint(ticketID) == endpointPrefix \o ToString(ticketID) \o endpointPostfix

TicketOf(id) == [ID |-> id, UpdatedAt |-> 0, Name |-> "a"]

TicketResponse(id, status) ==
    IF status = 200
    THEN [StatusCode |-> 200, RetryAfter |-> "",
          Body |-> [Records |-> <<>>, Ticket |-> <<TicketOf(id)>>, NextPage |-> ""]]
    ELSE IF status = 404 THEN NotFoundResponse ELSE ErrorResponse

Statuses == {200, 404, 500}

OneInit ==
    /\ \E b \in Bases : client = [baseURL |-> b]
    /\ \E st \in [startID..endID -> Statuses] :
           server = [status |-> st,
                     routes |-> [u \in {client.baseURL \o TicketEndpoint(id) : id \in startID..endID} |->
                                    LET id == CHOOSE i \in startID..endID : u = client.baseURL \o TicketEndpoint(i)
                                    IN  TicketResponse(id, st[id])]]
    /\ log = NoLog
    /\ frame = [fn |-> "getOneByOne", pc |-> "call", ticketID |-> startID,
                endpoint |-> "", res |-> NotFoundResponse, record |-> NewPayload,
                result |-> <<>>, totalWaitTime |-> 0, ret |-> NoRet]

\* Lines 285-311: the locals and the first request.  Line 309 reads
\* res.Body before err is looked at: a nil response panics.
OneCall ==
    /\ frame.fn = "getOneByOne" /\ frame.pc = "call"
    /\ \E inj \in Injections :
           /\ CanInject(inj)
           /\ frame' = [frame EXCEPT !.pc = IF request(TicketEndpoint(startID), inj) = NilResponse
                                            THEN "panic" ELSE "loop",
                                     !.endpoint = TicketEndpoint(startID),
                                     !.res = request(TicketEndpoint(startID), inj)]
           /\ log' = Logged(TicketEndpoint(startID), inj)
    /\ UNCHANGED <<client, server>>

\* Mutant: the cursor is not incremented.
OneAdvanceNoIncrement(f, inj) ==
    [f EXCEPT !.record = NewPayload,
              !.endpoint = TicketEndpoint(f.ticketID + 1),
              !.res = request(TicketEndpoint(f.ticketID + 1), inj)]

\* Lines 337-340: the cursor advances and the next identifier is requested.
OneAdvance(f, inj) ==
    [f EXCEPT !.record = NewPayload,
              !.ticketID = f.ticketID + 1,
              !.endpoint = TicketEndpoint(f.ticketID + 1),
              !.res = request(TicketEndpoint(f.ticketID + 1), inj)]

\* Lines 316-317, 337-340: a 404 is skipped.
OneNotFound ==
    /\ frame.fn = "getOneByOne" /\ frame.pc = "loop"
    /\ frame.ticketID < endID
    /\ frame.res.StatusCode = 404
    /\ \E inj \in Injections :
           /\ CanInject(inj)
           /\ frame' = OneAdvance(frame, inj)
           /\ log' = Logged(TicketEndpoint(frame.ticketID + 1), inj)
    /\ UNCHANGED <<client, server>>

\* Lines 319-327: a 429 is slept on, and the loop continues with the same
\* response: no request is issued before the next test of res.StatusCode.
OneRateLimited ==
    /\ frame.fn = "getOneByOne" /\ frame.pc = "loop"
    /\ frame.ticketID < endID
    /\ frame.res.StatusCode = 429
    /\ Len(log.sleeps) < MaxSleeps
    /\ LET after == ParseInt(frame.res.RetryAfter)
       IN  IF after.err # "nil"
           THEN /\ frame' = [frame EXCEPT !.pc = "done",
                                          !.totalWaitTime = @ + after.val,
                                          !.ret = [records |-> <<>>, err |-> after.err]]
                /\ log' = log
           ELSE /\ frame' = [frame EXCEPT !.totalWaitTime = @ + after.val]
                /\ log' = [log EXCEPT !.sleeps = Append(@, after.val)]
    /\ UNCHANGED <<client, server>>

\* Lines 316, 340: the error of the request of line 340 is dropped, and the
\* next turn of the loop reads res.StatusCode of a nil response.
OneNilResponse ==
    /\ frame.fn = "getOneByOne" /\ frame.pc = "loop"
    /\ frame.ticketID < endID
    /\ frame.res = NilResponse
    /\ frame' = [frame EXCEPT !.pc = "panic"]
    /\ UNCHANGED <<client, server, log>>

\* Mutant: the record is put in front of the result.
OneAppendedInFront(f, record) == record.Ticket \o f.result

\* The record appended at line 334 (a nil record.Ticket is not modelled:
\* every served 200 carries a ticket).
OneAppended(f, record) == f.result \o record.Ticket

\* Mutant: the error return hands back what was accumulated.
OneFatalKeepsResult(f, err) == [f EXCEPT !.pc = "done", !.ret = [records |-> f.result, err |-> err]]

\* Lines 330-332: return nil, err.
OneFatal(f, err) == [f EXCEPT !.pc = "done", !.ret = [records |-> <<>>, err |-> err]]

\* Lines 328-340: any other response is unmarshalled; an error ends the
\* call, a ticket is appended.
OneRecord ==
    /\ frame.fn = "getOneByOne" /\ frame.pc = "loop"
    /\ frame.ticketID < endID
    /\ frame.res # NilResponse
    /\ frame.res.StatusCode \notin {404, 429}
    /\ LET u == unmarshall(frame.res, frame.record)
       IN  IF u.err # "nil"
           THEN /\ frame' = OneFatal(frame, u.err)
                /\ log' = log
           ELSE \E inj \in Injections :
                    /\ CanInject(inj)
                    /\ frame' = OneAdvance([frame EXCEPT !.result = OneAppended(frame, u.out)], inj)
                    /\ log' = Logged(TicketEndpoint(frame.ticketID + 1), inj)
    /\ UNCHANGED <<client, server>>

\* Lines 312, 343-345: the cursor reached endID.
OneReturn ==
    /\ frame.fn = "getOneByOne" /\ frame.pc = "loop"
    /\ ~(frame.ticketID < endID)
    /\ frame' = [frame EXCEPT !.pc = "done", !.ret = [records |-> frame.result, err |-> "nil"]]
    /\ UNCHANGED <<client, server, log>>

OneNext == OneCall \/ OneNotFound \/ OneRateLimited \/ OneNilResponse \/ OneRecord \/ OneReturn

SpecOne == OneInit /\ [][OneNext]_vars

(***************************************************************************)
(* Properties of getOneByOne.                                              *)
(***************************************************************************)
OneDone == frame.fn = "getOneByOne" /\ frame.pc = "done"

\* The responses the scan has examined: those of identifiers below ticketID,
\* and the current one once it made the call return.
OnlyFoundOrMissing == \A i \in 1..Len(log.responses) : log.responses[i].StatusCode \in {200, 404}

RECURSIVE TicketsFound(_, _)
TicketsFound(from, to) ==
    IF from > to THEN <<>>
    ELSE (IF server.status[from] = 200 THEN <<TicketOf(from)>> ELSE <<>>)
         \o TicketsFound(from + 1, to)

\* C3: the step that handles a 429 with a well-formed Retry-After issues a
\* request for the same identifier and leaves the cursor where it is.
C3_ReissueSameID ==
    [][(/\ frame.fn = "getOneByOne" /\ frame.pc = "loop"
        /\ frame.ticketID < endID
        /\ frame.res.StatusCode = 429
        /\ ParseInt(frame.res.RetryAfter).err = "nil"
        /\ frame' # frame)
       => /\ frame'.ticketID = frame.ticketID
          /\ log'.requests = Append(log.requests, TicketEndpoint(frame.ticketID))]_vars

\* C4: when every identifier is answered with success or not-found, the
\* scan returns the tickets of the identifiers startID..endID-1 answered
\* with success, in ascending order, and no error.
C4_GapTolerance ==
    (OneDone /\ OnlyFoundOrMissing) =>
        /\ frame.ret.err = "nil"
        /\ frame.ret.records = TicketsFound(startID, endID - 1)

C4_Witness ==
    /\ OneDone /\ OnlyFoundOrMissing
    /\ server.status[1] = 200 /\ server.status[2] = 404 /\ server.status[3] = 200
    /\ frame.ret.records = <<TicketOf(1), TicketOf(3)>>

\* The position in the log of a response with a fatal status.
FatalAt(i) ==
    /\ i \in 1..Len(log.responses)
    /\ i < endID
    /\ log.responses[i].StatusCode \notin {404, 429}
    /\ (log.responses[i].StatusCode < 200 \/ log.responses[i].StatusCode >= 300)

\* C5: once an identifier below endID is answered with a status that is
\* neither a success nor 404 nor 429, no identifier after it is requested,
\* and the call returns an error and no records.
C5_FatalAbort ==
    \A i \in 1..Len(log.responses) :
        (frame.fn = "getOneByOne" /\ FatalAt(i)) =>
            /\ Len(log.requests) = i
            /\ OneDone => (frame.ret.err # "nil" /\ frame.ret.records = <<>>)

C5_Witness ==
    /\ OneDone
    /\ FatalAt(3)
    /\ Len(frame.result) = 2
    /\ frame.ret.records = <<>>
    /\ frame.ret.err = "APIError"

(***************************************************************************)
(* getTicketCommentsOneByOne, called by GetAllTicketComments: the comments  *)
(* of the tickets of a list, as a map from ticket ID to comments.  A map is *)
(* a function; Records is the Comments field of the payload.               *)
(***************************************************************************)
commentsPostfix == "/comments.json"

CommentsEndpoint(ticketID) == endpointPrefix \o ToString(ticketID) \o commentsPostfix

CommentsOf(id) == <<[ID |-> id, UpdatedAt |-> 0, Name |-> "a"]>>

CommentsResponse(id, status) ==
    IF status = 200
    THEN [StatusCode |-> 200, RetryAfter |-> "",
          Body |-> [Records |-> CommentsOf(id), Ticket |-> <<>>, NextPage |-> ""]]
    ELSE IF status = 404 THEN NotFoundResponse ELSE ErrorResponse

EmptyMap == <<>>

\* result[key] = value
MapSet(map, key, value) == [k \in DOMAIN map \cup {key} |-> IF k = key THEN value ELSE map[k]]

CommentsInit ==
    /\ \E b \in Bases : client = [baseURL |-> b]
    /\ \E st \in [IDs -> Statuses] :
           server = [status |-> st,
                     routes |-> [u \in {client.baseURL \o CommentsEndpoint(id) : id \in IDs} |->
                                    LET id == CHOOSE i \in IDs : u = client.baseURL \o CommentsEndpoint(i)
                                    IN  CommentsResponse(id, st[id])]]
    /\ log = NoLog
    /\ \E ids \in UNION {[1..n -> IDs] : n \in 0..MaxList} :
           frame = [fn |-> "getTicketCommentsOneByOne", pc |-> "call", ticketIDs |-> ids,
                    ticketInd |-> 1, endpoint |-> "", res |-> NotFoundResponse,
                    record |-> NewPayload, result |-> EmptyMap, totalWaitTime |-> 0, ret |-> NoRet]

numTickets == Len(frame.ticketIDs)

\* Lines 95-123: an empty list returns the empty map; otherwise the first
\* ticket is requested, and line 120 reads res.Body whatever err is.
CommentsCall ==
    /\ frame.fn = "getTicketCommentsOneByOne" /\ frame.pc = "call"
    /\ IF numTickets = 0
       THEN /\ frame' = [frame EXCEPT !.pc = "done", !.ret = [records |-> frame.result, err |-> "nil"]]
            /\ log' = log
       ELSE \E inj \in Injections :
                /\ CanInject(inj)
                /\ frame' = [frame EXCEPT !.pc = IF request(CommentsEndpoint(frame.ticketIDs[1]), inj)
                                                      = NilResponse
                                                 THEN "panic" ELSE "loop",
                                          !.endpoint = CommentsEndpoint(frame.ticketIDs[1]),
                                          !.res = request(CommentsEndpoint(frame.ticketIDs[1]), inj)]
                /\ log' = Logged(CommentsEndpoint(frame.ticketIDs[1]), inj)
    /\ UNCHANGED <<client, server>>

\* Lines 146-148 and the ticketInd++ of line 124.  ticketInd is 0-based in
\* the source and ticketIDs 1-based here: ticketIDs[ticketInd] of the source
\* is frame.ticketIDs[frame.ticketInd + 1].
CommentsAdvance(f, inj) ==
    [f EXCEPT !.record = NewPayload,
              !.endpoint = CommentsEndpoint(f.ticketIDs[f.ticketInd + 1]),
              !.res = request(CommentsEndpoint(f.ticketIDs[f.ticketInd + 1]), inj),
              !.ticketInd = f.ticketInd + 1]

\* Lines 126-127, 146-148.
CommentsNotFound ==
    /\ frame.fn = "getTicketCommentsOneByOne" /\ frame.pc = "loop"
    /\ frame.ticketInd < numTickets
    /\ frame.res.StatusCode = 404
    /\ \E inj \in Injections :
           /\ CanInject(inj)
           /\ frame' = CommentsAdvance(frame, inj)
           /\ log' = Logged(CommentsEndpoint(frame.ticketIDs[frame.ticketInd + 1]), inj)
    /\ UNCHANGED <<client, server>>

\* Lines 129-137: a 429 is slept on; continue runs ticketInd++ and the loop
\* goes on with the same response.
CommentsRateLimited ==
    /\ frame.fn = "getTicketCommentsOneByOne" /\ frame.pc = "loop"
    /\ frame.ticketInd < numTickets
    /\ frame.res.StatusCode = 429
    /\ LET after == ParseInt(frame.res.RetryAfter)
       IN  IF after.err # "nil"
           THEN /\ frame' = [frame EXCEPT !.pc = "done",
                                          !.totalWaitTime = @ + after.val,
                                          !.ret = [records |-> EmptyMap, err |-> after.err]]
                /\ log' = log
           ELSE /\ frame' = [frame EXCEPT !.totalWaitTime = @ + after.val,
                                          !.ticketInd = @ + 1]
                /\ log' = [log EXCEPT !.sleeps = Append(@, after.val)]
    /\ UNCHANGED <<client, server>>

\* Lines 126, 148: the error of the request of line 148 is dropped, and the
\* next turn of the loop reads res.StatusCode of a nil response.
CommentsNilResponse ==
    /\ frame.fn = "getTicketCommentsOneByOne" /\ frame.pc = "loop"
    /\ frame.ticketInd < numTickets
    /\ frame.res = NilResponse
    /\ frame' = [frame EXCEPT !.pc = "panic"]
    /\ UNCHANGED <<client, server, log>>

\* Lines 138-148: the response belongs to ticketIDs[ticketInd-1] of the
\* source, frame.ticketIDs[frame.ticketInd] here.
CommentsRecord ==
    /\ frame.fn = "getTicketCommentsOneByOne" /\ frame.pc = "loop"
    /\ frame.ticketInd < numTickets
    /\ frame.res # NilResponse
    /\ frame.res.StatusCode \notin {404, 429}
    /\ LET u == unmarshall(frame.res, frame.record)
       IN  IF u.err # "nil"
           THEN /\ frame' = [frame EXCEPT !.pc = "done", !.ret = [records |-> EmptyMap, err |-> u.err]]
                /\ log' = log
           ELSE \E inj \in Injections :
                    /\ CanInject(inj)
                    /\ frame' = CommentsAdvance(
                                   [frame EXCEPT !.result = MapSet(@, frame.ticketIDs[frame.ticketInd],
                                                                   u.out.Records)], inj)
                    /\ log' = Logged(CommentsEndpoint(frame.ticketIDs[frame.ticketInd + 1]), inj)
    /\ UNCHANGED <<client, server>>

\* Lines 124, 151-153 and GetAllTicketComments, lines 84-90.
CommentsReturn ==
    /\ frame.fn = "getTicketCommentsOneByOne" /\ frame.pc = "loop"
    /\ ~(frame.ticketInd < numTickets)
    /\ frame' = [frame EXCEPT !.pc = "done", !.ret = [records |-> frame.result, err |-> "nil"]]
    /\ UNCHANGED <<client, server, log>>

CommentsNext ==
    \/ CommentsCall \/ CommentsNotFound \/ CommentsRateLimited
    \/ CommentsNilResponse \/ CommentsRecord \/ CommentsReturn

SpecComments == CommentsInit /\ [][CommentsNext]_vars

CommentsDone == frame.fn = "getTicketCommentsOneByOne" /\ frame.pc = "done"

\* C6: when every request is answered with success or not-found, the map
\* returned has exactly the ticket IDs of the list answered with success as
\* keys, each with the comments of that ticket.
C6_CommentsOfEveryTicket ==
    (CommentsDone /\ OnlyFoundOrMissing) =>
        /\ frame.ret.err = "nil"
        /\ DOMAIN frame.ret.records =
               {frame.ticketIDs[i] : i \in {j \in 1..numTickets : server.status[frame.ticketIDs[j]] = 200}}
        /\ \A id \in DOMAIN frame.ret.records : frame.ret.records[id] = CommentsOf(id)

(***************************************************************************)
(* The continuation-following walkers: getTicketsIncrementally,            *)
(* getUsersIncrementally, getCallLegsIncrementally (one loop, three         *)
(* copies) and getSatisfactionScoresIncrementally.                         *)
(*                                                                         *)
(* The server holds a chain of pages at the cursors 0..len-1.  Page c       *)
(* returns the URL of page c+1 as its continuation reference; the last      *)
(* page returns what `last` says: the URL of a page of the chain (its own   *)
(* URL is the repeat that ends an export) or no reference at all.          *)
(***************************************************************************)
CopiedWalkers == {"getTicketsIncrementally", "getUsersIncrementally", "getCallLegsIncrementally"}

Walkers == CopiedWalkers \cup {"getSatisfactionScoresIncrementally"}

apiV2(fn) ==
    IF fn = "getTicketsIncrementally" THEN "/api/v2/incremental/tickets.json?start_time="
    ELSE IF fn = "getUsersIncrementally" THEN "/api/v2/incremental/users.json?start_time="
    ELSE IF fn = "getCallLegsIncrementally" THEN "/api/v2/channels/voice/stats/incremental/legs?start_time="
    ELSE "/api/v2/satisfaction_ratings.json?start_time="

\* Lines 113-115 of the ticket and user walkers search apiV2 in a literal
\* URL; the call-leg walker searches it in its own resolved URL.
apiStartIndex(fn) ==
    IF fn = "getCallLegsIncrementally"
    THEN Index(ResolveReference(client.baseURL, apiV2(fn)), apiV2(fn))
    ELSE Index("https://philhelp.zendesk.com" \o apiV2(fn), apiV2(fn))

unixTime == 0

PageURL(fn, cursor) == client.baseURL \o apiV2(fn) \o ToString(cursor)

Schemes == {"disjoint", "overlap", "updated"}

\* The records of the page at a cursor: one record per page, or each page
\* delivering the first record of the next page too, or every page
\* delivering record 1 with a later UpdatedAt.
PageRecords(scheme, cursor) ==
    IF scheme = "disjoint" THEN <<[ID |-> cursor + 1, UpdatedAt |-> 1, Name |-> "a"]>>
    ELSE IF scheme = "overlap"
    THEN <<[ID |-> cursor + 1, UpdatedAt |-> 1, Name |-> "a"],
           [ID |-> cursor + 2, UpdatedAt |-> 1, Name |-> "a"]>>
    ELSE <<[ID |-> 1, UpdatedAt |-> cursor + 1, Name |-> "a"]>>

NoNext == -1

Chains == {ch \in [len : 1..MaxPages, last : {NoNext} \cup 0..(MaxPages - 1)] : ch.last < ch.len}

NextOf(chain, cursor) == IF cursor < chain.len - 1 THEN cursor + 1 ELSE chain.last

PageResponse(fn, chain, scheme, cursor) ==
    [StatusCode |-> 200, RetryAfter |-> "",
     Body |-> [Records |-> PageRecords(scheme, cursor), Ticket |-> <<>>,
               NextPage |-> IF NextOf(chain, cursor) = NoNext THEN ""
                            ELSE PageURL(fn, NextOf(chain, cursor))]]

\* The frame of a call that has not started.
IncrFrame(fn) ==
    [fn |-> fn, pc |-> "call", currentPage |-> "", dataPerPage |-> NewPayload,
     res |-> NotFoundResponse, result |-> <<>>, totalWaitTime |-> 0,
     err |-> "nil", count |-> 0, ret |-> NoRet]

IncrInit ==
    /\ \E b \in Bases : client = [baseURL |-> b]
    /\ \E fn \in Walkers, chain \in Chains, scheme \in Schemes :
           /\ server = [chain |-> chain, scheme |-> scheme,
                        routes |-> [u \in {PageURL(fn, c) : c \in 0..(chain.len - 1)} |->
                                       LET c == CHOOSE k \in 0..(chain.len - 1) : u = PageURL(fn, k)
                                       IN  PageResponse(fn, chain, scheme, c)]]
           /\ frame = IncrFrame(fn)
    /\ log = NoLog

\* The deduplicator a walker runs over its result before returning it
\* (lines 158, 454; the call-leg walker returns result as it is).
Dedup(fn, result) ==
    IF fn = "getTicketsIncrementally" THEN getUniqTickets(result)
    ELSE IF fn = "getUsersIncrementally" THEN getUniqUsers(result)
    ELSE result

\* Lines 99-126: the first request and the locals of the loop.  A request
\* that fails makes the ticket and call-leg walkers return its error; the
\* user walker reads res.Body first (line 411) and panics.
IncrStart(f, l, inj) ==
    LET res == request(apiV2(f.fn) \o ToString(unixTime), inj)
    IN  [frame |-> IF res # NilResponse
                   THEN [f EXCEPT !.pc = "loop", !.res = res, !.dataPerPage = NewPayload,
                                  !.currentPage = "emptypage"]
                   ELSE IF f.fn = "getUsersIncrementally"
                   THEN [f EXCEPT !.pc = "panic", !.res = res]
                   ELSE [f EXCEPT !.pc = "done", !.res = res, !.err = RequestErr(res),
                                  !.ret = [records |-> <<>>, err |-> RequestErr(res)]],
         log |-> LoggedTo(l, apiV2(f.fn) \o ToString(unixTime), inj)]

\* Lines 151-153: dataPerPage.NextPage[apiStartIndex:] is requested; the
\* slice panics when the string is shorter than apiStartIndex.
IncrFetch(f, l, inj) ==
    IF ~SliceOK(f.dataPerPage.NextPage, apiStartIndex(f.fn))
    THEN [frame |-> [f EXCEPT !.pc = "panic"], log |-> l]
    ELSE LET endpoint == SliceFrom(f.dataPerPage.NextPage, apiStartIndex(f.fn))
         IN  [frame |-> [f EXCEPT !.res = request(endpoint, inj), !.dataPerPage = NewPayload],
              log |-> LoggedTo(l, endpoint, inj)]

\* Mutant: the 429 is taken for a page, and the cursor moves on to the
\* continuation reference of dataPerPage.
IncrOn429MovesCursor(f, l, inj) ==
    LET after == ParseInt(f.res.RetryAfter)
    IN  IF after.err # "nil"
        THEN [frame |-> [f EXCEPT !.pc = "done", !.totalWaitTime = @ + after.val,
                                  !.ret = [records |-> <<>>, err |-> after.err]],
              log |-> l]
        ELSE IncrFetch([f EXCEPT !.totalWaitTime = @ + after.val,
                                 !.currentPage = f.dataPerPage.NextPage,
                                 !.dataPerPage.NextPage = f.currentPage],
                       [l EXCEPT !.sleeps = Append(@, after.val)], inj)

\* Lines 130-138, 151-153: the response is a 429.
IncrOn429(f, l, inj) ==
    LET after == ParseInt(f.res.RetryAfter)
    IN  IF after.err # "nil"
        THEN [frame |-> [f EXCEPT !.pc = "done", !.totalWaitTime = @ + after.val,
                                  !.ret = [records |-> <<>>, err |-> after.err]],
              log |-> l]
        ELSE IncrFetch([f EXCEPT !.totalWaitTime = @ + after.val,
                                 !.dataPerPage.NextPage = f.currentPage],
                       [l EXCEPT !.sleeps = Append(@, after.val)], inj)

\* Lines 155-158: the return after the loop.
IncrFinish(f, l) ==
    [frame |-> [f EXCEPT !.pc = "done", !.ret = [records |-> Dedup(f.fn, f.result), err |-> f.err]],
     log |-> l]

\* Mutant: the test of lines 145-147 is missing.
IncrOnPageNoBreak(f, l, inj) ==
    LET u == unmarshall(f.res, f.dataPerPage)
    IN  IF u.err # "nil"
        THEN [frame |-> [f EXCEPT !.pc = "done", !.err = u.err,
                                  !.ret = [records |-> <<>>, err |-> u.err]],
              log |-> l]
        ELSE IncrFetch([f EXCEPT !.err = u.err, !.dataPerPage = u.out,
                                 !.result = f.result \o u.out.Records,
                                 !.currentPage = u.out.NextPage], l, inj)

\* Mutant: a page replaces the result instead of being appended to it.
IncrOnPageNoAppend(f, l, inj) ==
    LET u == unmarshall(f.res, f.dataPerPage)
        g == [f EXCEPT !.err = u.err, !.dataPerPage = u.out, !.result = u.out.Records]
    IN  IF u.err # "nil"
        THEN [frame |-> [f EXCEPT !.pc = "done", !.err = u.err,
                                  !.ret = [records |-> <<>>, err |-> u.err]],
              log |-> l]
        ELSE IF g.currentPage = g.dataPerPage.NextPage THEN IncrFinish(g, l)
        ELSE IncrFetch([g EXCEPT !.currentPage = g.dataPerPage.NextPage], l, inj)

\* Lines 140-153: the response is unmarshalled and its records appended;
\* a continuation reference equal to currentPage ends the loop.
IncrOnPage(f, l, inj) ==
    LET u == unmarshall(f.res, f.dataPerPage)
        g == [f EXCEPT !.err = u.err, !.dataPerPage = u.out,
                       !.result = f.result \o u.out.Records]
    IN  IF u.err # "nil"
        THEN [frame |-> [f EXCEPT !.pc = "done", !.err = u.err,
                                  !.ret = [records |-> <<>>, err |-> u.err]],
              log |-> l]
        ELSE IF g.currentPage = g.dataPerPage.NextPage THEN IncrFinish(g, l)
        ELSE IncrFetch([g EXCEPT !.currentPage = g.dataPerPage.NextPage], l, inj)

\* Line 128: the condition of the loop.
IncrLoopCond(f) == f.currentPage # f.dataPerPage.NextPage

\* Lines 128-154: one turn of the loop, from its condition to the request
\* that ends the turn.  The error of the request of line 151 is dropped:
\* line 130 reads res.StatusCode of a nil response.
IncrIterate(f, l, inj) ==
    IF ~IncrLoopCond(f) THEN IncrFinish(f, l)
    ELSE IF f.res = NilResponse THEN [frame |-> [f EXCEPT !.pc = "panic"], log |-> l]
    ELSE IF f.res.StatusCode = 429 THEN IncrOn429(f, l, inj)
    ELSE IncrOnPage(f, l, inj)

IncrCall ==
    /\ frame.fn \in CopiedWalkers /\ frame.pc = "call"
    /\ \E inj \in Injections :
           /\ CanInject(inj)
           /\ frame' = IncrStart(frame, log, inj).frame
           /\ log' = IncrStart(frame, log, inj).log
    /\ UNCHANGED <<client, server>>

\* A turn of the loop that finds a 429 in res.
IncrRateLimited ==
    /\ frame.fn \in CopiedWalkers /\ frame.pc = "loop"
    /\ frame.res.StatusCode = 429
    /\ Len(log.requests) < MaxFetches
    /\ \E inj \in Injections :
           /\ CanInject(inj)
           /\ frame' = IncrIterate(frame, log, inj).frame
           /\ log' = IncrIterate(frame, log, inj).log
    /\ UNCHANGED <<client, server>>

\* A turn of the loop that finds any other response in res.
IncrPage ==
    /\ frame.fn \in CopiedWalkers /\ frame.pc = "loop"
    /\ frame.res.StatusCode # 429
    /\ Len(log.requests) < MaxFetches
    /\ \E inj \in Injections :
           /\ CanInject(inj)
           /\ frame' = IncrIterate(frame, log, inj).frame
           /\ log' = IncrIterate(frame, log, inj).log
    /\ UNCHANGED <<client, server>>

(***************************************************************************)
(* getSatisfactionScoresIncrementally: every response is unmarshalled right *)
(* after its request, and the loop runs while count is below its budget.    *)
(***************************************************************************)
satPageBudget == 10

\* Lines 525-529: the unmarshalling that follows each request; unmarshall
\* reads res.StatusCode, of a nil response too.
SatDecoded(f, l) ==
    LET u == unmarshall(f.res, f.dataPerPage)
    IN  IF f.res = NilResponse THEN [frame |-> [f EXCEPT !.pc = "panic"], log |-> l]
        ELSE IF u.err # "nil"
        THEN [frame |-> [f EXCEPT !.pc = "done", !.err = u.err,
                                  !.ret = [records |-> <<>>, err |-> u.err]],
              log |-> l]
        ELSE [frame |-> [f EXCEPT !.err = u.err, !.dataPerPage = u.out, !.count = @ + 1],
              log |-> l]

\* Lines 475-500: the first request, at the endpoint GetSatisfactionScores-
\* Incrementally builds (line 404); count is 1 after it.
SatStart(f, l, inj) ==
    LET endpoint == apiV2(f.fn) \o ToString(unixTime)
        res == request(endpoint, inj)
    IN  IF res = NilResponse
        THEN [frame |-> [f EXCEPT !.pc = "done", !.currentPage = endpoint, !.res = res,
                                  !.err = RequestErr(res),
                                  !.ret = [records |-> <<>>, err |-> RequestErr(res)]],
              log |-> LoggedTo(l, endpoint, inj)]
        ELSE SatDecoded([f EXCEPT !.pc = "loop", !.currentPage = endpoint,
                                  !.res = res, !.dataPerPage = NewPayload, !.count = 0],
                        LoggedTo(l, endpoint, inj))

\* Lines 532-535.
SatFinish(f, l) ==
    [frame |-> [f EXCEPT !.pc = "done", !.ret = [records |-> f.result, err |-> f.err]],
     log |-> l]

\* Lines 523-529.
SatFetch(f, l, inj) ==
    SatDecoded([f EXCEPT !.res = request(f.currentPage, inj), !.dataPerPage = NewPayload],
               LoggedTo(l, f.currentPage, inj))

\* Mutant: the loop has no page budget (for true instead of for count < 10).
SatIterateNoBudget(f, l, inj) ==
    IF f.res.StatusCode = 429
    THEN LET after == ParseInt(f.res.RetryAfter)
         IN  IF after.err # "nil"
             THEN [frame |-> [f EXCEPT !.pc = "done", !.ret = [records |-> <<>>, err |-> after.err]],
                   log |-> l]
             ELSE SatFetch([f EXCEPT !.totalWaitTime = @ + after.val],
                           [l EXCEPT !.sleeps = Append(@, after.val)], inj)
    ELSE LET g == [f EXCEPT !.result = f.result \o f.dataPerPage.Records]
         IN  IF g.currentPage = g.dataPerPage.NextPage THEN SatFinish(g, l)
             ELSE IF g.dataPerPage.NextPage = ""
             THEN SatFinish([g EXCEPT !.currentPage = g.dataPerPage.NextPage], l)
             ELSE SatFetch([g EXCEPT !.currentPage = g.dataPerPage.NextPage], l, inj)

\* Lines 501-530: one turn of the loop.
SatIterate(f, l, inj) ==
    IF ~(f.count < satPageBudget) THEN SatFinish(f, l)
    ELSE IF f.res.StatusCode = 429
    THEN LET after == ParseInt(f.res.RetryAfter)
         IN  IF after.err # "nil"
             THEN [frame |-> [f EXCEPT !.pc = "done", !.ret = [records |-> <<>>, err |-> after.err]],
                   log |-> l]
             ELSE SatFetch([f EXCEPT !.totalWaitTime = @ + after.val],
                           [l EXCEPT !.sleeps = Append(@, after.val)], inj)
    ELSE LET g == [f EXCEPT !.result = f.result \o f.dataPerPage.Records]
         IN  IF g.currentPage = g.dataPerPage.NextPage THEN SatFinish(g, l)
             ELSE IF g.dataPerPage.NextPage = ""
             THEN SatFinish([g EXCEPT !.currentPage = g.dataPerPage.NextPage], l)
             ELSE SatFetch([g EXCEPT !.currentPage = g.dataPerPage.NextPage], l, inj)

SatCall ==
    /\ frame.fn = "getSatisfactionScoresIncrementally" /\ frame.pc = "call"
    /\ \E inj \in Injections :
           /\ CanInject(inj)
           /\ frame' = SatStart(frame, log, inj).frame
           /\ log' = SatStart(frame, log, inj).log
    /\ UNCHANGED <<client, server>>

SatLoop ==
    /\ frame.fn = "getSatisfactionScoresIncrementally" /\ frame.pc = "loop"
    /\ \E inj \in Injections :
           /\ CanInject(inj)
           /\ frame' = SatIterate(frame, log, inj).frame
           /\ log' = SatIterate(frame, log, inj).log
    /\ UNCHANGED <<client, server>>

IncrNext == IncrCall \/ IncrRateLimited \/ IncrPage \/ SatCall \/ SatLoop

SpecIncr == IncrInit /\ [][IncrNext]_vars

\* The walker runs on: a step that is possible is eventually taken.
FairSpecIncr == SpecIncr /\ WF_vars(IncrNext)

(***************************************************************************)
(* The deduplicators as a machine: a list is drawn, the deduplicator is     *)
(* applied to it, and then applied again to its own output.                *)
(***************************************************************************)
Lists == UNION {[1..n -> Records] : n \in 0..MaxList}

Uniq(fn, list) == IF fn = "getUniqTickets" THEN getUniqTickets(list) ELSE getUniqUsers(list)

UniqInit ==
    /\ client = NoClient
    /\ server = NoServer
    /\ log = NoLog
    /\ \E fn \in {"getUniqTickets", "getUniqUsers"}, list \in Lists :
           frame = [fn |-> fn, pc |-> "call", in |-> list, out |-> <<>>, again |-> <<>>]

UniqCall ==
    /\ frame.pc = "call"
    /\ frame' = [frame EXCEPT !.pc = "once", !.out = Uniq(frame.fn, frame.in)]
    /\ UNCHANGED <<client, server, log>>

UniqCallAgain ==
    /\ frame.pc = "once"
    /\ frame' = [frame EXCEPT !.pc = "twice", !.again = Uniq(frame.fn, frame.out)]
    /\ UNCHANGED <<client, server, log>>

UniqNext == UniqCall \/ UniqCallAgain

SpecUniq == UniqInit /\ [][UniqNext]_vars

\* The identity key as the specification defines it.
IdentityKey(fn, r) == IF fn = "getUniqTickets" THEN <<r.ID>> ELSE <<r.ID, r.UpdatedAt>>

\* Strictly increasing maps of 1..Len(sub) into 1..Len(list) selecting sub.
IsSubsequence(sub, list) ==
    \E pos \in [1..Len(sub) -> 1..Len(list)] :
        /\ \A i \in 1..Len(sub) : sub[i] = list[pos[i]]
        /\ \A i, j \in 1..Len(sub) : i < j => pos[i] < pos[j]

NoSharedKey(fn, list) ==
    \A i, j \in 1..Len(list) :
        i # j => IdentityKey(fn, list[i]) # IdentityKey(fn, list[j])

FirstOccurrence(fn, list, k) ==
    list[CHOOSE i \in 1..Len(list) :
             /\ IdentityKey(fn, list[i]) = k
             /\ \A j \in 1..(i - 1) : IdentityKey(fn, list[j]) # k]

KeysOf(fn, list) == {IdentityKey(fn, list[i]) : i \in 1..Len(list)}

\* C7: the output of a deduplicator has no two elements with the same
\* identity key and is a subsequence of its input.
C7_UniqOutput ==
    frame.pc \in {"once", "twice"} =>
        /\ NoSharedKey(frame.fn, frame.out)
        /\ IsSubsequence(frame.out, frame.in)

C7_Witness ==
    /\ frame.pc = "once"
    /\ Len(frame.in) = 3
    /\ Len(frame.out) = 2
    /\ ~NoSharedKey(frame.fn, frame.in)

\* C8: every identity key of the input occurs exactly once in the output,
\* carried by its first occurrence in the input; the key is the ID for
\* tickets and the pair (ID, UpdatedAt) for users.
C8_UniqRetention ==
    frame.pc \in {"once", "twice"} =>
        \A k \in KeysOf(frame.fn, frame.in) :
            /\ Cardinality({i \in 1..Len(frame.out) : IdentityKey(frame.fn, frame.out[i]) = k}) = 1
            /\ \E i \in 1..Len(frame.out) : frame.out[i] = FirstOccurrence(frame.fn, frame.in, k)

\* Two users with one ID and two timestamps are both kept, two users with
\* one ID and one timestamp collapse to the first.
C8_Witness ==
    /\ frame.pc = "once"
    /\ frame.fn = "getUniqUsers"
    /\ Len(frame.in) = 3
    /\ frame.in[1].ID = frame.in[2].ID /\ frame.in[1].UpdatedAt # frame.in[2].UpdatedAt
    /\ frame.in[3].ID = frame.in[1].ID /\ frame.in[3].UpdatedAt = frame.in[1].UpdatedAt
    /\ frame.in[3].Name # frame.in[1].Name
    /\ frame.out = <<frame.in[1], frame.in[2]>>

\* C9: a deduplicator applied to its own output returns that output.
C9_UniqIdempotent == frame.pc = "twice" => frame.again = frame.out

C9_Witness ==
    /\ frame.pc = "twice"
    /\ Len(frame.in) = 3
    /\ Len(frame.out) = 2
    /\ frame.again = frame.out

(***************************************************************************)
(* Properties of the continuation-following walkers.                       *)
(***************************************************************************)
KeyKind(fn) == IF fn = "getTicketsIncrementally" THEN "getUniqTickets" ELSE "getUniqUsers"

\* The list without every element whose identity key occurred before it.
RECURSIVE FirstOnly(_, _, _)
FirstOnly(kind, list, i) ==
    IF i > Len(list) THEN <<>>
    ELSE (IF \E j \in 1..(i - 1) : IdentityKey(kind, list[j]) = IdentityKey(kind, list[i])
          THEN <<>> ELSE <<list[i]>>)
         \o FirstOnly(kind, list, i + 1)

\* The records of the pages that answered the requests from..to of the log,
\* in the order of the requests.
RECURSIVE FetchedRecords(_, _)
FetchedRecords(from, to) ==
    IF from > to THEN <<>>
    ELSE LET url == ResolveReference(client.baseURL, log.requests[from])
         IN  (IF url \in DOMAIN server.routes THEN server.routes[url].Body.Records ELSE <<>>)
             \o FetchedRecords(from + 1, to)

FetchedURLs == {ResolveReference(client.baseURL, log.requests[i]) : i \in 1..Len(log.requests)}

\* The last page of the chain returns the reference the page before it
\* returned: its own URL.
RepeatChain == server.chain.last = server.chain.len - 1

AllServed == \A i \in 1..Len(log.responses) : log.responses[i].StatusCode = 200

C1_Case ==
    /\ frame.fn \in {"getTicketsIncrementally", "getUsersIncrementally"}
    /\ RepeatChain

\* C1: on a chain of pages that ends with a repeated continuation reference
\* and is served without rate-limiting, the ticket and user walkers
\* terminate (every step issues one more request or returns, a step is
\* always possible, and there are at most len+1 requests) and return,
\* without error, the records of the fetched pages in fetch order less the
\* records whose identity key occurred earlier; every page of the chain is
\* among the fetched ones.
C1_RepeatTerminates ==
    /\ []((C1_Case /\ AllServed) =>
            /\ frame.pc # "panic"
            /\ Len(log.requests) <= server.chain.len + 1
            /\ frame.pc # "done" => ENABLED IncrNext
            /\ frame.pc = "done" =>
                   /\ frame.ret.err = "nil"
                   /\ frame.ret.records =
                          FirstOnly(KeyKind(frame.fn), FetchedRecords(1, Len(log.requests)), 1)
                   /\ DOMAIN server.routes \subseteq FetchedURLs)
    /\ [][(C1_Case /\ AllServed /\ frame' # frame)
          => (frame'.pc = "done" \/ Len(log'.requests) = Len(log.requests) + 1)]_vars

C1_Witness ==
    /\ frame.fn = "getUsersIncrementally"
    /\ RepeatChain /\ AllServed
    /\ server.chain.len = 3
    /\ server.scheme = "overlap"
    /\ frame.pc = "done"
    /\ Len(frame.result) = 6
    /\ Len(frame.ret.records) = 4

\* The run of a call on a server that never rate-limits.
RECURSIVE CleanRun(_, _, _)
CleanRun(f, l, fuel) ==
    IF f.pc # "loop" \/ fuel = 0 THEN [frame |-> f, log |-> l]
    ELSE LET n == IncrIterate(f, l, "serve") IN CleanRun(n.frame, n.log, fuel - 1)

CleanCall(fn) ==
    LET n == IncrStart(IncrFrame(fn), NoLog, "serve") IN CleanRun(n.frame, n.log, MaxFetches)

RateLimitedAt == {i \in 1..Len(log.responses) : log.responses[i].StatusCode = 429}

\* One fetch was answered with 429 and a positive Retry-After, every other
\* fetch was served, and the call has ended.
C2_Case ==
    /\ frame.fn \in CopiedWalkers
    /\ frame.pc \in {"done", "panic"}
    /\ Cardinality(RateLimitedAt) = 1
    /\ \A i \in RateLimitedAt :
           ParseInt(log.responses[i].RetryAfter).err = "nil" /\ ParseInt(log.responses[i].RetryAfter).val > 0
    /\ \A i \in 1..Len(log.responses) : log.responses[i].StatusCode \in {200, 429}
    /\ CleanCall(frame.fn).frame.pc = "done"

C2_Holds ==
    /\ frame.pc = "done"
    /\ frame.ret = CleanCall(frame.fn).frame.ret
    /\ \A i \in RateLimitedAt : log.sleeps = <<ParseInt(log.responses[i].RetryAfter).val>>

\* C2: a single 429 with a positive Retry-After, on any fetch of the walk,
\* the first included, leaves the result what it is without the 429 and
\* makes the walker sleep once, for the seconds of the header.
C2_RateLimitTransparent == C2_Case => C2_Holds

\* The same, for a 429 on any fetch but the first.
C2_AfterFirstFetch == (C2_Case /\ 1 \notin RateLimitedAt) => C2_Holds

C2_AfterFirstWitness ==
    /\ C2_Case /\ 1 \notin RateLimitedAt
    /\ frame.pc = "done"
    /\ Len(frame.ret.records) >= 2
    /\ log.sleeps = <<2>>

PagesAt == {i \in 1..Len(log.responses) : log.responses[i].StatusCode = 200}

\* The page fetched by request j came from the reference A that the page
\* fetched before it returned, and returns A again.
RepeatAt(j) ==
    /\ j \in PagesAt
    /\ \E i \in PagesAt :
           /\ i < j
           /\ \A k \in PagesAt : ~(i < k /\ k < j)
           /\ log.responses[i].NextPage # ""
           /\ log.responses[i].NextPage = log.responses[j].NextPage
           /\ ResolveReference(client.baseURL, log.requests[j]) = log.responses[i].NextPage

RepeatSeen == \E j \in 1..Len(log.requests) : RepeatAt(j)

\* C10: once a page fetched at the reference A returns A again, the walker
\* issues no further request, and its next step returns without error.
C10_CursorLoopSafety ==
    /\ [](\A j \in 1..Len(log.requests) : RepeatAt(j) => (j = Len(log.requests) /\ frame.pc # "panic"))
    /\ [][(RepeatSeen /\ frame.pc = "loop" /\ frame' # frame)
          => (frame'.pc = "done" /\ frame'.ret.err = "nil" /\ log' = log)]_vars

C10_Witness ==
    /\ frame.fn = "getSatisfactionScoresIncrementally"
    /\ RepeatAt(3)
    /\ Len(log.requests) = 3
    /\ frame.pc = "done"
    /\ Len(frame.ret.records) = 3

(***************************************************************************)
(* The list-all walkers: getAll, getAllUsers and the rate-limit-aware       *)
(* getAllTicketMetrics (one loop, three copies), the getAllTicketMetrics    *)
(* that remembers prevPage, and getSatisfactionScores, which asks for the   *)
(* pages by number.  The page at cursor c of the chain is page c+1 of the    *)
(* listing.                                                                *)
(***************************************************************************)
ListWalkers == {"getAll", "getAllUsers", "getAllTicketMetrics"}

prevPageWalker == "getAllTicketMetrics (prevPage)"

AllWalkers == ListWalkers \cup {prevPageWalker, "getSatisfactionScores"}

\* The endpoint the exported function hands to the walker (getAll has no
\* caller in the package: the ticket listing stands for its argument).
AllEndpoint(fn) ==
    IF fn = "getAll" THEN "/api/v2/tickets.json"
    ELSE IF fn = "getAllUsers" THEN "/api/v2/users.json"
    ELSE IF fn = "getSatisfactionScores" THEN "/api/v2/satisfaction_ratings.json?page="
    ELSE "/api/v2/ticket_metrics.json"

\* The list field of the payload a list-all walker appends.
ListField(fn) ==
    IF fn = "getAll" THEN "tickets"
    ELSE IF fn = "getAllUsers" THEN "users"
    ELSE "ticket_metrics"

\* strings.Split(endpoint[len(apiV2):], ".")[0]
FieldName(endpoint) ==
    LET rest == SliceFrom(endpoint, Len("/api/v2/"))
        dot == Index(rest, ".")
    IN  IF dot = -1 THEN rest ELSE SubSeq(rest, 1, dot)

\* A third account, whose base URL is 38 characters long.
AllBases == Bases \cup {"https://philhealthhelpdesk.zendesk.com"}

AllPageURL(fn, cursor) ==
    IF fn = "getSatisfactionScores"
    THEN client.baseURL \o AllEndpoint(fn) \o ToString(cursor + 1)
    ELSE client.baseURL \o AllEndpoint(fn) \o "?page=" \o ToString(cursor + 1)

AllPageResponse(fn, chain, scheme, cursor) ==
    [StatusCode |-> 200, RetryAfter |-> "",
     Body |-> [Records |-> PageRecords(scheme, cursor), Ticket |-> <<>>,
               NextPage |-> IF NextOf(chain, cursor) = NoNext THEN ""
                            ELSE AllPageURL(fn, NextOf(chain, cursor))]]

\* The listing answers a page number past its last page with an empty page.
EmptyPageResponse ==
    [StatusCode |-> 200, RetryAfter |-> "",
     Body |-> [Records |-> <<>>, Ticket |-> <<>>, NextPage |-> ""]]

numberOfPages == 50

\* The listings a walker is run on: a chain of pages, and for the walker
\* that asks by page number a listing as long as its budget too.
AllChains(fn) ==
    IF fn = "getSatisfactionScores"
    THEN [len : (1..MaxPages) \cup {numberOfPages}, last : {NoNext}]
    ELSE Chains

\* The URLs the server knows: the endpoint itself (page 1) and the numbered
\* pages; the satisfaction listing knows every page number a call can ask.
AllRoutes(fn, chain, scheme) ==
    LET numbered == IF fn = "getSatisfactionScores" THEN 0..numberOfPages ELSE 0..(chain.len - 1)
        known == {AllPageURL(fn, c) : c \in numbered} \cup {client.baseURL \o AllEndpoint(fn)}
    IN  [u \in known |->
            IF u = client.baseURL \o AllEndpoint(fn) THEN AllPageResponse(fn, chain, scheme, 0)
            ELSE LET c == CHOOSE k \in numbered : u = AllPageURL(fn, k)
                 IN  IF c < chain.len THEN AllPageResponse(fn, chain, scheme, c)
                     ELSE EmptyPageResponse]

AllFrame(fn) ==
    [fn |-> fn, pc |-> "call", endpoint |-> AllEndpoint(fn), currentPage |-> "",
     prevPage |-> "", dataPerPage |-> NewPayload, res |-> NotFoundResponse, result |-> <<>>,
     totalWaitTime |-> 0, err |-> "nil", apiStartIndex |-> 0, count |-> 0, ret |-> NoRet]

AllInit ==
    /\ \E b \in AllBases : client = [baseURL |-> b]
    /\ \E fn \in AllWalkers, scheme \in Schemes :
       \E chain \in AllChains(fn) :
           /\ server = [chain |-> chain, scheme |-> scheme, routes |-> AllRoutes(fn, chain, scheme)]
           /\ frame = AllFrame(fn)
    /\ log = NoLog

\* Lines 227-252 of getAll (66-91 and 486-511 of its copies): the first
\* request, whose error is returned, and the unmarshalling of its response,
\* whose error is kept in err and not looked at.
AllStart(f, l, inj) ==
    LET res == request(f.endpoint, inj)
        u == unmarshall(res, NewPayload)
    IN  [frame |-> IF res = NilResponse
                   THEN [f EXCEPT !.pc = "done", !.res = res, !.err = RequestErr(res),
                                  !.ret = [records |-> <<>>, err |-> RequestErr(res)]]
                   ELSE [f EXCEPT !.pc = "loop", !.res = res, !.err = u.err,
                                  !.dataPerPage = u.out,
                                  !.apiStartIndex = Index(u.out.NextPage, "/api/v2/"),
                                  !.currentPage = f.endpoint],
         log |-> LoggedTo(l, f.endpoint, inj)]

\* Lines 272-277: the request of dataPerPage.NextPage[apiStartIndex:], whose
\* error is dropped, and the unmarshalling of the response, which reads
\* res.StatusCode.
AllFetch(f, l, inj) ==
    IF ~SliceOK(f.dataPerPage.NextPage, f.apiStartIndex)
    THEN [frame |-> [f EXCEPT !.pc = "panic"], log |-> l]
    ELSE LET endpoint == SliceFrom(f.dataPerPage.NextPage, f.apiStartIndex)
             res == request(endpoint, inj)
             u == unmarshall(res, NewPayload)
         IN  [frame |-> IF res = NilResponse THEN [f EXCEPT !.pc = "panic", !.res = res]
                        ELSE IF u.err # "nil"
                        THEN [f EXCEPT !.pc = "done", !.res = res, !.err = u.err,
                                       !.dataPerPage = u.out,
                                       !.ret = [records |-> <<>>, err |-> u.err]]
                        ELSE [f EXCEPT !.res = res, !.err = u.err, !.dataPerPage = u.out],
              log |-> LoggedTo(l, endpoint, inj)]

\* Lines 279-282.
AllFinish(f, l) ==
    [frame |-> [f EXCEPT !.pc = "done", !.ret = [records |-> f.result, err |-> f.err]],
     log |-> l]

\* Lines 257-264, 272-277: the response is a 429.
AllOn429(f, l, inj) ==
    LET after == ParseInt(f.res.RetryAfter)
    IN  IF after.err # "nil"
        THEN [frame |-> [f EXCEPT !.pc = "done", !.totalWaitTime = @ + after.val,
                                  !.ret = [records |-> <<>>, err |-> after.err]],
              log |-> l]
        ELSE AllFetch([f EXCEPT !.totalWaitTime = @ + after.val],
                      [l EXCEPT !.sleeps = Append(@, after.val)], inj)

\* Lines 265-277: the records of the page are appended when the endpoint
\* names the list field of the walker, and the next page is requested.
AllOnPage(f, l, inj) ==
    AllFetch([f EXCEPT !.result = IF FieldName(f.endpoint) = ListField(f.fn)
                                  THEN f.result \o f.dataPerPage.Records ELSE f.result,
                       !.currentPage = f.dataPerPage.NextPage], l, inj)

\* Lines 255-278: one turn of the loop.
AllIterate(f, l, inj) ==
    IF f.currentPage = "" THEN AllFinish(f, l)
    ELSE IF f.res.StatusCode = 429 THEN AllOn429(f, l, inj)
    ELSE AllOnPage(f, l, inj)

AllCall ==
    /\ frame.fn \in ListWalkers /\ frame.pc = "call"
    /\ \E inj \in Injections :
           /\ CanInject(inj)
           /\ frame' = AllStart(frame, log, inj).frame
           /\ log' = AllStart(frame, log, inj).log
    /\ UNCHANGED <<client, server>>

\* A turn of the loop that finds a 429 in res.
AllRateLimited ==
    /\ frame.fn \in ListWalkers /\ frame.pc = "loop"
    /\ frame.res.StatusCode = 429
    /\ \E inj \in Injections :
           /\ CanInject(inj)
           /\ frame' = AllIterate(frame, log, inj).frame
           /\ log' = AllIterate(frame, log, inj).log
    /\ UNCHANGED <<client, server>>

\* A turn of the loop that finds any other response in res.
AllPage ==
    /\ frame.fn \in ListWalkers /\ frame.pc = "loop"
    /\ frame.res.StatusCode # 429
    /\ Len(log.requests) < MaxFetches
    /\ \E inj \in Injections :
           /\ CanInject(inj)
           /\ frame' = AllIterate(frame, log, inj).frame
           /\ log' = AllIterate(frame, log, inj).log
    /\ UNCHANGED <<client, server>>

(***************************************************************************)
(* getAllTicketMetrics, the copy with prevPage (lines 186-221).             *)
(***************************************************************************)
\* "38 is the starting postion of api endpoint" (line 215).
metricsStartIndex == 38

\* Lines 186-208.
MetricsStart(f, l, inj) ==
    LET res == request(f.endpoint, inj)
        u == unmarshall(res, NewPayload)
    IN  [frame |-> IF res = NilResponse
                   THEN [f EXCEPT !.pc = "done", !.res = res, !.err = RequestErr(res),
                                  !.ret = [records |-> <<>>, err |-> RequestErr(res)]]
                   ELSE [f EXCEPT !.pc = "loop", !.res = res, !.err = u.err,
                                  !.dataPerPage = u.out, !.prevPage = ""],
         log |-> LoggedTo(l, f.endpoint, inj)]

\* Line 220: result and the error of the last unmarshalling.
MetricsFinish(f, l) ==
    [frame |-> [f EXCEPT !.pc = "done", !.ret = [records |-> f.result, err |-> f.err]],
     log |-> l]

\* Lines 215-217: the error of the request is dropped, the error of the
\* unmarshalling is kept and the loop goes on.
MetricsFetch(f, l, inj) ==
    IF ~SliceOK(f.dataPerPage.NextPage, metricsStartIndex)
    THEN [frame |-> [f EXCEPT !.pc = "panic"], log |-> l]
    ELSE LET endpoint == SliceFrom(f.dataPerPage.NextPage, metricsStartIndex)
             res == request(endpoint, inj)
             u == unmarshall(res, NewPayload)
         IN  [frame |-> IF res = NilResponse THEN [f EXCEPT !.pc = "panic"]
                        ELSE [f EXCEPT !.err = u.err, !.dataPerPage = u.out],
              log |-> LoggedTo(l, endpoint, inj)]

\* Lines 209-218: one turn of the loop.
MetricsIterate(f, l, inj) ==
    IF f.dataPerPage.NextPage = f.prevPage THEN MetricsFinish(f, l)
    ELSE LET g == [f EXCEPT !.result = f.result \o f.dataPerPage.Records,
                            !.prevPage = f.dataPerPage.NextPage]
         IN  IF g.prevPage = "" THEN MetricsFinish(g, l)
             ELSE MetricsFetch(g, l, inj)

MetricsCall ==
    /\ frame.fn = prevPageWalker /\ frame.pc = "call"
    /\ \E inj \in Injections :
           /\ CanInject(inj)
           /\ frame' = MetricsStart(frame, log, inj).frame
           /\ log' = MetricsStart(frame, log, inj).log
    /\ UNCHANGED <<client, server>>

MetricsLoop ==
    /\ frame.fn = prevPageWalker /\ frame.pc = "loop"
    /\ Len(log.requests) < MaxFetches
    /\ \E inj \in Injections :
           /\ CanInject(inj)
           /\ frame' = MetricsIterate(frame, log, inj).frame
           /\ log' = MetricsIterate(frame, log, inj).log
    /\ UNCHANGED <<client, server>>

(***************************************************************************)
(* getSatisfactionScores (lines 409-473): the pages 1, 2, ... are asked by  *)
(* number while count is below numberOfPages.                              *)
(***************************************************************************)
startingPageNumber == 1

\* Lines 461-466, and 425-440 for the first page.
ScoresDecoded(f, l) ==
    LET u == unmarshall(f.res, NewPayload)
    IN  IF f.res = NilResponse THEN [frame |-> [f EXCEPT !.pc = "panic"], log |-> l]
        ELSE IF u.err # "nil"
        THEN [frame |-> [f EXCEPT !.pc = "done", !.err = u.err,
                                  !.ret = [records |-> <<>>, err |-> u.err]],
              log |-> l]
        ELSE [frame |-> [f EXCEPT !.err = u.err, !.dataPerPage = u.out], log |-> l]

\* Lines 409-440.
ScoresStart(f, l, inj) ==
    LET currentPage == f.endpoint \o ToString(startingPageNumber)
        res == request(currentPage, inj)
    IN  IF res = NilResponse
        THEN [frame |-> [f EXCEPT !.pc = "done", !.currentPage = currentPage, !.res = res,
                                  !.err = RequestErr(res),
                                  !.ret = [records |-> <<>>, err |-> RequestErr(res)]],
              log |-> LoggedTo(l, currentPage, inj)]
        ELSE ScoresDecoded([f EXCEPT !.pc = "loop", !.currentPage = currentPage, !.res = res,
                                     !.count = 1],
                           LoggedTo(l, currentPage, inj))

\* Lines 469-472.
ScoresFinish(f, l) ==
    [frame |-> [f EXCEPT !.pc = "done", !.ret = [records |-> f.result, err |-> f.err]],
     log |-> l]

\* Lines 459-466: currentPage becomes the page of the next number.
ScoresFetch(f, l, inj) ==
    LET currentPage == f.endpoint \o ToString(startingPageNumber + f.count)
    IN  ScoresDecoded([f EXCEPT !.currentPage = currentPage, !.count = @ + 1,
                                !.res = request(currentPage, inj)],
                      LoggedTo(l, currentPage, inj))

\* Lines 443-467: one turn of the loop.
ScoresIterate(f, l, inj) ==
    IF ~(f.count < numberOfPages /\ f.currentPage # "") THEN ScoresFinish(f, l)
    ELSE IF f.res.StatusCode = 429
    THEN LET after == ParseInt(f.res.RetryAfter)
         IN  IF after.err # "nil"
             THEN [frame |-> [f EXCEPT !.pc = "done", !.ret = [records |-> <<>>, err |-> after.err]],
                   log |-> l]
             ELSE ScoresFetch([f EXCEPT !.totalWaitTime = @ + after.val],
                              [l EXCEPT !.sleeps = Append(@, after.val)], inj)
    ELSE ScoresFetch([f EXCEPT !.result = f.result \o f.dataPerPage.Records,
                               !.currentPage = f.dataPerPage.NextPage], l, inj)

ScoresCall ==
    /\ frame.fn = "getSatisfactionScores" /\ frame.pc = "call"
    /\ \E inj \in Injections :
           /\ CanInject(inj)
           /\ frame' = ScoresStart(frame, log, inj).frame
           /\ log' = ScoresStart(frame, log, inj).log
    /\ UNCHANGED <<client, server>>

ScoresLoop ==
    /\ frame.fn = "getSatisfactionScores" /\ frame.pc = "loop"
    /\ \E inj \in Injections :
           /\ CanInject(inj)
           /\ frame' = ScoresIterate(frame, log, inj).frame
           /\ log' = ScoresIterate(frame, log, inj).log
    /\ UNCHANGED <<client, server>>

AllNext ==
    \/ AllCall \/ AllRateLimited \/ AllPage
    \/ MetricsCall \/ MetricsLoop
    \/ ScoresCall \/ ScoresLoop

SpecAll == AllInit /\ [][AllNext]_vars

(***************************************************************************)
(* Every walker: one call of any of them, on any server it can meet.       *)
(***************************************************************************)
WalkInit == OneInit \/ CommentsInit \/ IncrInit \/ AllInit

WalkNext == OneNext \/ CommentsNext \/ IncrNext \/ AllNext

SpecWalk == WalkInit /\ [][WalkNext]_vars

(***************************************************************************)
(* Properties of the walkers that follow continuation references.          *)
(***************************************************************************)
\* The response to request i is a page without a continuation reference.
EmptyContinuationAt(i) ==
    /\ i \in 1..Len(log.responses)
    /\ log.responses[i].StatusCode = 200
    /\ log.responses[i].NextPage = ""

\* C11: in getAll, getAllUsers, getAllTicketMetrics and the ticket, user
\* and call-leg incremental walkers, once a served page carries an empty
\* continuation reference no further request is issued and the call returns
\* without error the records of all the pages fetched, that page included.
C11_EmptyContinuationStops ==
    \A i \in 1..Len(log.responses) :
        (frame.fn \in ListWalkers \cup CopiedWalkers /\ AllServed /\ EmptyContinuationAt(i)) =>
            /\ i = Len(log.requests)
            /\ frame.pc # "panic"
            /\ frame.pc = "done" =>
                   /\ frame.ret.err = "nil"
                   /\ frame.ret.records = Dedup(frame.fn, FetchedRecords(1, Len(log.requests)))

\* The response to request i is a 429 whose Retry-After is an integer.
WellFormed429At(i) ==
    /\ i \in 1..Len(log.responses)
    /\ log.responses[i].StatusCode = 429
    /\ ParseInt(log.responses[i].RetryAfter).err = "nil"

OnlyPagesAnd429 == \A i \in 1..Len(log.responses) : log.responses[i].StatusCode \in {200, 429}

\* C12: in getAll, getAllUsers, getAllTicketMetrics, getSatisfactionScores
\* and getSatisfactionScoresIncrementally, a call that met a 429 with a
\* well-formed Retry-After (and otherwise only pages) and has ended has
\* slept, has issued the same request again right after the 429, and has
\* returned without error.
C12_RateLimitAbsorbed ==
    \A i \in 1..Len(log.responses) :
        (/\ frame.fn \in ListWalkers \cup {"getSatisfactionScores", "getSatisfactionScoresIncrementally"}
         /\ OnlyPagesAnd429
         /\ WellFormed429At(i)
         /\ frame.pc \in {"done", "panic"}) =>
            /\ frame.pc = "done"
            /\ frame.ret.err = "nil"
            /\ Len(log.sleeps) >= 1
            /\ i < Len(log.requests)
            /\ ResolveReference(client.baseURL, log.requests[i + 1])
                   = ResolveReference(client.baseURL, log.requests[i])

(***************************************************************************)
(* Properties of getTicketCommentsOneByOne under rate-limiting.            *)
(***************************************************************************)
\* The positions of the list whose ticket request i asked for.
PositionsOfRequest(i) ==
    {k \in 1..numTickets : CommentsEndpoint(frame.ticketIDs[k]) = log.requests[i]}

\* C13: when a request of getTicketCommentsOneByOne was answered with 429
\* and a well-formed Retry-After, a call that returns without error has
\* slept and returns a map with the comments of that ticket and of every
\* ticket after it in the list that the server answers with success.
C13_CommentsNotPartial ==
    \A i \in 1..Len(log.responses) :
        (CommentsDone /\ frame.ret.err = "nil" /\ WellFormed429At(i)) =>
            /\ Len(log.sleeps) >= 1
            /\ \A k \in PositionsOfRequest(i) : \A j \in k..numTickets :
                   server.status[frame.ticketIDs[j]] = 200 =>
                       /\ frame.ticketIDs[j] \in DOMAIN frame.ret.records
                       /\ frame.ret.records[frame.ticketIDs[j]] = CommentsOf(frame.ticketIDs[j])

(***************************************************************************)
(* Properties of every walker.                                             *)
(***************************************************************************)
\* Request i failed in the transport: c.request returned an error and no
\* response.
FailedAt(i) == i \in 1..Len(log.responses) /\ log.responses[i] = Seen(NilResponse)

\* C14: in every walker, a request that fails in the transport is the last
\* request of the call, the call does not panic, and when it has returned
\* it has returned an error.
C14_TransportFailureReported ==
    \A i \in 1..Len(log.responses) :
        FailedAt(i) =>
            /\ i = Len(log.requests)
            /\ frame.pc # "panic"
            /\ frame.pc = "done" => frame.ret.err # "nil"

\* C15: a call of any walker that has returned an error has returned no
\* records with it.
C15_NoPartialResultWithError ==
    (frame.pc = "done" /\ frame.ret.err # "nil") => frame.ret.records = <<>>

(***************************************************************************)
(* Further properties of the incremental walkers.                          *)
(***************************************************************************)
\* C16: the records an incremental walker (tickets, users, call legs,
\* satisfaction scores) returns never hold two records with one identity
\* key: the ID for tickets, the ID with the last-modified instant for the
\* other kinds (two copies of one record share every key).
C16_ExportDeduplicated ==
    (frame.fn \in Walkers /\ frame.pc = "done") =>
        NoSharedKey(KeyKind(frame.fn), frame.ret.records)

\* The page fetched by request j returns a continuation reference that a
\* page fetched earlier in the walk returned, whichever it was.
AnyRepeatAt(j) ==
    /\ j \in PagesAt
    /\ log.responses[j].NextPage # ""
    /\ \E i \in PagesAt : i < j /\ log.responses[i].NextPage = log.responses[j].NextPage

\* C17: in the ticket, user and call-leg incremental walkers, a page that
\* returns a continuation reference seen earlier in the walk is the last
\* page requested: the walk ends there, without a panic.
C17_AnyRepeatTerminates ==
    \A j \in 1..Len(log.requests) :
        (frame.fn \in CopiedWalkers /\ AnyRepeatAt(j)) =>
            /\ j = Len(log.requests)
            /\ frame.pc # "panic"

(***************************************************************************)
(* Properties of the walkers with a page budget.                           *)
(***************************************************************************)
BudgetedWalkers == {"getSatisfactionScores", "getSatisfactionScoresIncrementally"}

\* C18: a call of getSatisfactionScores or getSatisfactionScores-
\* Incrementally that returns without error returns the records of every
\* page it fetched, in the order of the fetches, the page fetched last
\* included.
C18_BudgetedFullAccumulation ==
    (frame.fn \in BudgetedWalkers /\ frame.pc = "done" /\ frame.ret.err = "nil") =>
        frame.ret.records = FetchedRecords(1, Len(log.requests))

(***************************************************************************)
(* Termination of getOneByOne.                                             *)
(***************************************************************************)
\* C19: while every response is a success or a not-found, the scan of
\* getOneByOne does not panic; the response a turn of the loop examines is
\* the response of the identifier the cursor stands on; every turn moves
\* the cursor up by one, from startID to endID, whatever the response
\* holds; a step is always possible until the call has returned; and the
\* call returns, without error, exactly when the cursor stands on endID,
\* without examining the response of endID.
C19_OneByOneTerminates ==
    /\ []((frame.fn = "getOneByOne" /\ OnlyFoundOrMissing) =>
            /\ frame.pc # "panic"
            /\ frame.ticketID \in startID..endID
            /\ frame.pc = "loop" =>
                   /\ Len(log.requests) = frame.ticketID - startID + 1
                   /\ log.requests[Len(log.requests)] = TicketEndpoint(frame.ticketID)
                   /\ frame.res = server.routes[client.baseURL \o TicketEndpoint(frame.ticketID)]
            /\ frame.pc # "done" => ENABLED OneNext
            /\ frame.pc = "done" =>
                   /\ frame.ticketID = endID
                   /\ frame.ret.err = "nil"
                   /\ Len(frame.ret.records) <= endID - startID)
    /\ [][(frame.fn = "getOneByOne" /\ OnlyFoundOrMissing /\ frame.pc = "loop" /\ frame' # frame) =>
              \/ /\ frame.ticketID < endID
                 /\ frame'.ticketID = frame.ticketID + 1
                 /\ frame'.pc = "loop"
                 /\ Len(log'.requests) = Len(log.requests) + 1
              \/ /\ frame.ticketID = endID
                 /\ frame'.pc = "done"
                 /\ log' = log]_vars

\* The scan ran to its end over identifiers of which one was found.
C19_Witness ==
    /\ OneDone /\ OnlyFoundOrMissing
    /\ frame.ticketID = endID
    /\ Len(log.requests) = endID - startID + 1
    /\ Len(frame.ret.records) = 1
    /\ server.status[endID - 1] = 404

(***************************************************************************)
(* do: the single-call operation behind get, post, put and delete.  The     *)
(* server follows a script: its answer to the first request of the call     *)
(* and its answer to the second.                                           *)
(***************************************************************************)
Methods == {"GET", "POST"}

DoStatuses == {200, 429, 503}

DoRetryAfterValues == {"", "0", "1", "soon", "-1", "9223372037"}

\* What a response carries in its body: nothing, or a ticket.
DoBodies ==
    {NewPayload} \cup {[Records |-> <<>>, Ticket |-> <<TicketOf(id)>>, NextPage |-> ""] : id \in IDs}

DoResponses == [StatusCode : DoStatuses, RetryAfter : DoRetryAfterValues, Body : DoBodies]

\* The values of in: nil, or a payload (kept as the JSON it marshals to).
DoInputs == {"nil", "{\"ticket\":{}}"}

\* marshall(in): no bytes for nil.
marshall(in) == IF in = "nil" THEN "" ELSE in

\* headers of do, lines 191-194.
DoHeaders(in) == IF in # "nil" THEN "Content-Type: application/json" ELSE ""

\* What c.request(method, endpoint, headers, bytes.NewReader(payload)) sends.
DoSent(f) ==
    [method |-> f.method, endpoint |-> f.endpoint,
     headers |-> DoHeaders(f.in), body |-> marshall(f.in)]

DoInit ==
    /\ \E b \in Bases : client = [baseURL |-> b]
    /\ \E first \in DoResponses, second \in {r \in DoResponses : r.RetryAfter \in {"", "1"}} :
           server = [script |-> <<first, second>>]
    /\ \E method \in Methods, in \in DoInputs :
           frame = [fn |-> "do", pc |-> "call", method |-> method, in |-> in,
                    endpoint |-> TicketEndpoint(startID), res |-> NilResponse,
                    ret |-> [err |-> "nil", out |-> NewPayload]]
    /\ log = NoLog

\* c.request for the n-th request of the call: the answer of the script, or
\* no response when the transport fails.
DoRequest(l, fail) == IF fail THEN NilResponse ELSE server.script[Len(l.requests) + 1]

DoLogged(f, l, fail) ==
    [l EXCEPT !.requests = Append(@, DoSent(f)),
              !.responses = Append(@, Seen(DoRequest(l, fail)))]

\* return unmarshall(res, out), lines 208 and 220.
DoReturn(f, res) ==
    [f EXCEPT !.pc = "done", !.res = res,
              !.ret = [err |-> unmarshall(res, NewPayload).err,
                       out |-> unmarshall(res, NewPayload).out]]

\* An int64 is kept as its sign and the decimal digits of its magnitude,
\* without leading zeros: the values a header can hold are beyond the
\* integers of the checker.
RECURSIVE AllDigits(_)
AllDigits(s) == s = "" \/ (IsDigit(SubSeq(s, 1, 1)) /\ AllDigits(SubSeq(s, 2, Len(s))))

RECURSIVE StripZeros(_)
StripZeros(s) ==
    IF Len(s) > 1 /\ SubSeq(s, 1, 1) = "0" THEN StripZeros(SubSeq(s, 2, Len(s))) ELSE s

\* a <= b for two digit strings of one length.
RECURSIVE DigitsLeq(_, _)
DigitsLeq(a, b) ==
    IF a = "" THEN TRUE
    ELSE IF DigitVal(SubSeq(a, 1, 1)) # DigitVal(SubSeq(b, 1, 1))
    THEN DigitVal(SubSeq(a, 1, 1)) < DigitVal(SubSeq(b, 1, 1))
    ELSE DigitsLeq(SubSeq(a, 2, Len(a)), SubSeq(b, 2, Len(b)))

\* a <= b for two magnitudes without leading zeros.
BigLeq(a, b) == Len(a) < Len(b) \/ (Len(a) = Len(b) /\ DigitsLeq(a, b))

\* 2^63 - 1, 2^63 and 2^64 - 1.
MaxInt64 == "9223372036854775807"

MinInt64Magnitude == "9223372036854775808"

MaxUint64 == "18446744073709551615"

\* strconv.ParseInt(s, 10, 64) over the whole range of an int64.
ParseInt64(s) ==
    LET signed == s # "" /\ SubSeq(s, 1, 1) \in {"-", "+"}
        digits == IF signed THEN SubSeq(s, 2, Len(s)) ELSE s
        neg == signed /\ SubSeq(s, 1, 1) = "-"
    IN  IF digits = "" \/ ~AllDigits(digits)
        THEN [err |-> "invalid syntax", neg |-> FALSE, digits |-> "0"]
        ELSE IF ~BigLeq(StripZeros(digits), IF neg THEN MinInt64Magnitude ELSE MaxInt64)
        THEN [err |-> "value out of range", neg |-> neg,
              digits |-> IF neg THEN MinInt64Magnitude ELSE MaxInt64]
        ELSE [err |-> "nil", neg |-> neg /\ StripZeros(digits) # "0", digits |-> StripZeros(digits)]

\* time.Second is 10^9 nanoseconds: the product has nine more digits.
TimesSecond(digits) == IF digits = "0" THEN "0" ELSE digits \o "000000000"

\* time.Sleep(time.Duration(after) * time.Second), line 211: the nanoseconds
\* the call sleeps.  The product is an int64 and wraps; Sleep returns at
\* once for a duration that is not positive.  A product that wraps to a
\* positive duration sleeps a time that is not computed here ("wrapped").
Slept(after) ==
    LET ns == TimesSecond(after.digits)
    IN  IF BigLeq(ns, MaxInt64) THEN (IF after.neg THEN "0" ELSE ns)
        ELSE IF BigLeq(ns, MaxUint64) /\ ~after.neg THEN "0"
        ELSE "wrapped"

\* Mutant: a Retry-After of 0 is slept on as any other value.
DoStartWaitsOnZero(f, l, fail) ==
    LET res == DoRequest(l, fail)
        after == ParseInt64(res.RetryAfter)
    IN  IF res = NilResponse
        THEN [frame |-> [f EXCEPT !.pc = "done", !.ret = [err |-> RequestErr(res), out |-> NewPayload]],
              log |-> DoLogged(f, l, fail)]
        ELSE IF res.RetryAfter # "" /\ after.err = "nil"
        THEN [frame |-> [f EXCEPT !.pc = "slept", !.res = res],
              log |-> [DoLogged(f, l, fail) EXCEPT !.sleeps = Append(@, Slept(after))]]
        ELSE [frame |-> DoReturn(f, res), log |-> DoLogged(f, l, fail)]

\* Lines 185-211: the first request; its error is returned; a Retry-After
\* header that is an integer other than 0 is slept on.
DoStart(f, l, fail) ==
    LET res == DoRequest(l, fail)
        after == ParseInt64(res.RetryAfter)
    IN  IF res = NilResponse
        THEN [frame |-> [f EXCEPT !.pc = "done", !.ret = [err |-> RequestErr(res), out |-> NewPayload]],
              log |-> DoLogged(f, l, fail)]
        ELSE IF res.RetryAfter # "" /\ ~(after.err # "nil" \/ after.digits = "0")
        THEN [frame |-> [f EXCEPT !.pc = "slept", !.res = res],
              log |-> [DoLogged(f, l, fail) EXCEPT !.sleeps = Append(@, Slept(after))]]
        ELSE [frame |-> DoReturn(f, res), log |-> DoLogged(f, l, fail)]

\* Mutant: a Retry-After header of the second response is slept on as well
\* before the response is returned.
DoRetryWaitsAgain(f, l, fail) ==
    LET res == DoRequest(l, fail)
    IN  IF res = NilResponse
        THEN [frame |-> [f EXCEPT !.pc = "done", !.ret = [err |-> RequestErr(res), out |-> NewPayload]],
              log |-> DoLogged(f, l, fail)]
        ELSE IF res.RetryAfter # "" /\ ParseInt64(res.RetryAfter).err = "nil"
        THEN [frame |-> DoReturn(f, res),
              log |-> [DoLogged(f, l, fail) EXCEPT
                          !.sleeps = Append(@, Slept(ParseInt64(res.RetryAfter)))]]
        ELSE [frame |-> DoReturn(f, res), log |-> DoLogged(f, l, fail)]

\* Lines 213-220: the second request, after the sleep.
DoRetry(f, l, fail) ==
    LET res == DoRequest(l, fail)
    IN  IF res = NilResponse
        THEN [frame |-> [f EXCEPT !.pc = "done", !.ret = [err |-> RequestErr(res), out |-> NewPayload]],
              log |-> DoLogged(f, l, fail)]
        ELSE [frame |-> DoReturn(f, res), log |-> DoLogged(f, l, fail)]

DoCall ==
    /\ frame.fn = "do" /\ frame.pc = "call"
    /\ \E fail \in BOOLEAN :
           /\ frame' = DoStart(frame, log, fail).frame
           /\ log' = DoStart(frame, log, fail).log
    /\ UNCHANGED <<client, server>>

DoAgain ==
    /\ frame.fn = "do" /\ frame.pc = "slept"
    /\ \E fail \in BOOLEAN :
           /\ frame' = DoRetry(frame, log, fail).frame
           /\ log' = DoRetry(frame, log, fail).log
    /\ UNCHANGED <<client, server>>

DoNext == DoCall \/ DoAgain

SpecDo == DoInit /\ [][DoNext]_vars

\* The first response came without a Retry-After header, or with one whose
\* value is 0 or is not an integer.
NoWaitCase ==
    /\ Len(log.responses) >= 1
    /\ log.responses[1] # Seen(NilResponse)
    /\ \/ log.responses[1].RetryAfter = ""
       \/ ParseInt64(log.responses[1].RetryAfter).err # "nil"
       \/ ParseInt64(log.responses[1].RetryAfter).digits = "0"

\* C20: in do, when the first response has no Retry-After header, or its
\* value is 0, or its value is not an integer, the call has not slept, has
\* issued one request only, and has returned what unmarshall makes of the
\* first response.
C20_DoNoWait ==
    (frame.fn = "do" /\ NoWaitCase) =>
        /\ log.sleeps = <<>>
        /\ Len(log.requests) = 1
        /\ frame.pc = "done"
        /\ frame.ret.err = unmarshall(server.script[1], NewPayload).err
        /\ frame.ret.out = unmarshall(server.script[1], NewPayload).out

\* A 429 whose Retry-After is 0 is returned as the error it is.
C20_Witness ==
    /\ frame.fn = "do" /\ NoWaitCase
    /\ frame.pc = "done"
    /\ server.script[1].StatusCode = 429
    /\ server.script[1].RetryAfter = "0"
    /\ frame.ret.err = "APIError"
    /\ log.sleeps = <<>>

\* The first response carried a Retry-After header that parses to a
\* positive integer.
PositiveWaitCase ==
    /\ Len(log.responses) >= 1
    /\ log.responses[1] # Seen(NilResponse)
    /\ log.responses[1].RetryAfter # ""
    /\ ParseInt64(log.responses[1].RetryAfter).err = "nil"
    /\ ~ParseInt64(log.responses[1].RetryAfter).neg
    /\ ParseInt64(log.responses[1].RetryAfter).digits # "0"

\* What remains of the claim once the length of the sleep is left aside: one
\* request before the sleep, the same request after it, and the outcome of
\* the second response.
DoReissues ==
    /\ Len(log.sleeps) = 1
    /\ frame.pc \in {"slept", "done"}
    /\ frame.pc = "slept" => (Len(log.requests) = 1 /\ ENABLED DoAgain)
    /\ frame.pc = "done" =>
           /\ Len(log.requests) = 2
           /\ log.requests[2] = log.requests[1]
           /\ log.responses[2] = Seen(NilResponse) => frame.ret.err = "transport error"
           /\ log.responses[2] # Seen(NilResponse) =>
                  /\ frame.ret.err = unmarshall(server.script[2], NewPayload).err
                  /\ frame.ret.out = unmarshall(server.script[2], NewPayload).out

\* C21: in do, when the first response carries a Retry-After header that
\* parses to a positive integer N, the call has slept exactly N seconds
\* (N * 10^9 nanoseconds) before it issues the request a second time with
\* the same method, endpoint, headers and body, and its outcome is what
\* unmarshall makes of the second response.
C21_DoWaitsRetryAfter ==
    (frame.fn = "do" /\ PositiveWaitCase) =>
        /\ DoReissues
        /\ log.sleeps[1] = TimesSecond(ParseInt64(log.responses[1].RetryAfter).digits)

(***************************************************************************)
(* Rate-limit responses with a malformed Retry-After.                      *)
(***************************************************************************)
\* The walkers whose code has a branch for status 429.
RateLimitWalkers ==
    {"getOneByOne", "getTicketCommentsOneByOne"} \cup ListWalkers \cup Walkers

\* The response to request i is a 429 whose Retry-After is missing or is
\* not an integer.
Malformed429At(i) ==
    /\ i \in 1..Len(log.responses)
    /\ log.responses[i].StatusCode = 429
    /\ ParseInt(log.responses[i].RetryAfter).err # "nil"

\* C22: in every walker with a branch for 429, a 429 whose Retry-After is
\* missing or is not an integer is the answer to the last request of the
\* call, and the call, once it has returned, has returned an error and no
\* records.
C22_Malformed429IsFatal ==
    \A i \in 1..Len(log.responses) :
        (frame.fn \in RateLimitWalkers /\ Malformed429At(i)) =>
            /\ i = Len(log.requests)
            /\ frame.pc # "panic"
            /\ frame.pc = "done" => (frame.ret.err # "nil" /\ frame.ret.records = <<>>)

(***************************************************************************)
(* unmarshall and APIError: the error envelope of a response, and the      *)
(* message of the error.                                                   *)
(***************************************************************************)
CodecStatuses == {199, 200, 299, 300, 404, 429, 500}

\* Details of an APIError: nil, or a map from a field to its details.
NoDetails == [nil |-> TRUE, entries |-> <<>>]

EmptyDetails == [nil |-> FALSE, entries |-> <<>>]

EmailDetails ==
    [nil |-> FALSE,
     entries |-> <<[key |-> "email",
                    items |-> <<[Type |-> "BlankValue", Description |-> "Email: cannot be blank"]>>]>>]

\* The bodies of a response: no bytes at all, bytes that are not JSON, or a
\* JSON object.  The value of "error" is absent, a string, or an object
\* (which does not decode into the string field Type).
CodecBodies ==
    [syntax : {"empty", "garbage"}, error : {""}, errorIsString : {TRUE},
     description : {""}, details : {NoDetails}]
    \cup [syntax : {"object"}, error : {"", "RecordInvalid"}, errorIsString : {TRUE},
          description : {"", "Record validation errors"},
          details : {NoDetails, EmptyDetails, EmailDetails}]
    \cup [syntax : {"object"}, error : {"{\"title\":\"Forbidden\"}"}, errorIsString : {FALSE},
          description : {"", "Record validation errors"},
          details : {NoDetails, EmptyDetails, EmailDetails}]

\* json.NewDecoder(res.Body).Decode(apierr), line 372: the fields the
\* decoder sets and the error it returns.  A value of the wrong type leaves
\* its field alone and is reported after the other fields are decoded.
DecodeAPIError(body) ==
    IF body.syntax = "empty" THEN [err |-> "EOF", Type |-> "", Description |-> "", Details |-> NoDetails]
    ELSE IF body.syntax = "garbage"
    THEN [err |-> "invalid character", Type |-> "", Description |-> "", Details |-> NoDetails]
    ELSE [err |-> IF body.errorIsString THEN "nil" ELSE "cannot unmarshal object into string",
          Type |-> IF body.errorIsString THEN body.error ELSE "",
          Description |-> body.description,
          Details |-> body.details]

\* The APIError of lines 370-376.
NewAPIError(res) ==
    LET decoded == DecodeAPIError(res.Body)
    IN  [Response |-> res,
         Type |-> IF decoded.err # "nil" THEN "Unknown" ELSE decoded.Type,
         Description |-> IF decoded.err # "nil"
                         THEN "Oops! Something went wrong when parsing the error response."
                         ELSE decoded.Description,
         Details |-> decoded.Details]

NoAPIError == [Response |-> [StatusCode |-> 0], Type |-> "", Description |-> "", Details |-> NoDetails]

\* unmarshall, lines 368-384, with the error it returns as a value: kind is
\* "nil", "APIError" (apierr is the error) or the error of the decoder.
unmarshallEnvelope(res, outGiven) ==
    IF res.StatusCode < 200 \/ res.StatusCode >= 300
    THEN [kind |-> "APIError", apierr |-> NewAPIError(res)]
    ELSE IF outGiven
    THEN [kind |-> IF res.Body.syntax = "object" THEN "nil" ELSE "decode error", apierr |-> NoAPIError]
    ELSE [kind |-> "nil", apierr |-> NoAPIError]

\* The Error method of APIErrorDetail, lines 450-462.
DetailError(e) ==
    (IF e.Type # "" THEN e.Type \o ": " ELSE "") \o (IF e.Description # "" THEN e.Description ELSE "")

\* fmt's %+v of the map of details: the elements are errors and print as
\* their Error().
FormatDetails(d) ==
    IF d.entries = <<>> THEN "map[]"
    ELSE "map[" \o d.entries[1].key \o ":[" \o DetailError(d.entries[1].items[1]) \o "]]"

\* Mutant: the description is left out of the message.
APIErrorMessageNoDescription(e) ==
    LET msg0 == e.Response.Request.Method \o " " \o e.Response.Request.URL \o ": "
                    \o ToString(e.Response.StatusCode)
        msg1 == IF e.Type # "" THEN msg0 \o " " \o e.Type ELSE msg0
    IN  IF ~e.Details.nil THEN msg1 \o ": " \o FormatDetails(e.Details) ELSE msg1

\* The Error method of APIError, lines 426-442.
APIErrorMessage(e) ==
    LET msg0 == e.Response.Request.Method \o " " \o e.Response.Request.URL \o ": "
                    \o ToString(e.Response.StatusCode)
        msg1 == IF e.Type # "" THEN msg0 \o " " \o e.Type ELSE msg0
        msg2 == IF e.Description # "" THEN msg1 \o ": " \o e.Description ELSE msg1
    IN  IF ~e.Details.nil THEN msg2 \o ": " \o FormatDetails(e.Details) ELSE msg2

CodecInit ==
    /\ \E b \in Bases : client = [baseURL |-> b]
    /\ \E status \in CodecStatuses, body \in CodecBodies :
           server = [answer |-> [StatusCode |-> status, Body |-> body]]
    /\ \E method \in Methods, outGiven \in BOOLEAN :
           frame = [fn |-> "unmarshall", pc |-> "call", method |-> method,
                    endpoint |-> TicketEndpoint(startID), outGiven |-> outGiven,
                    res |-> [StatusCode |-> 0],
                    ret |-> [kind |-> "nil", apierr |-> NoAPIError], msg |-> ""]
    /\ log = NoLog

\* c.request, lines 159-183: the response of the transport names its request.
CodecRequest ==
    /\ frame.fn = "unmarshall" /\ frame.pc = "call"
    /\ frame' = [frame EXCEPT
                    !.pc = "response",
                    !.res = [StatusCode |-> server.answer.StatusCode,
                             Body |-> server.answer.Body,
                             Request |-> [Method |-> frame.method,
                                          URL |-> ResolveReference(client.baseURL, frame.endpoint)]]]
    /\ log' = [log EXCEPT !.requests = Append(@, frame.endpoint)]
    /\ UNCHANGED <<client, server>>

\* Mutant: a response outside 200..299 is an error only when the caller gave
\* an output target.
CodecUnmarshallOnlyWithOut ==
    /\ frame.fn = "unmarshall" /\ frame.pc = "response"
    /\ frame' = [frame EXCEPT !.pc = "returned",
                              !.ret = IF frame.outGiven
                                      THEN unmarshallEnvelope(frame.res, frame.outGiven)
                                      ELSE [kind |-> "nil", apierr |-> NoAPIError]]
    /\ UNCHANGED <<client, server, log>>

\* unmarshall(res, out).
CodecUnmarshall ==
    /\ frame.fn = "unmarshall" /\ frame.pc = "response"
    /\ frame' = [frame EXCEPT !.pc = "returned",
                              !.ret = unmarshallEnvelope(frame.res, frame.outGiven)]
    /\ UNCHANGED <<client, server, log>>

\* err.Error() of the APIError that unmarshall returned.
CodecError ==
    /\ frame.fn = "unmarshall" /\ frame.pc = "returned"
    /\ frame.ret.kind = "APIError"
    /\ frame' = [frame EXCEPT !.pc = "reported", !.msg = APIErrorMessage(frame.ret.apierr)]
    /\ UNCHANGED <<client, server, log>>

CodecNext == CodecRequest \/ CodecUnmarshall \/ CodecError

SpecCodec == CodecInit /\ [][CodecNext]_vars

\* The body of the response does not decode into an APIError.
Undecodable(body) == body.syntax # "object" \/ ~body.errorIsString

\* C23: for every response whose status is outside 200..299, unmarshall
\* returns an APIError that carries the response, with or without an output
\* target; when the body does not decode, the error has the type "Unknown"
\* and the generic description, and it is still an APIError (never the
\* error of the decoder).
C23_ErrorEnvelope ==
    (/\ frame.fn = "unmarshall" /\ frame.pc \in {"returned", "reported"}
     /\ (frame.res.StatusCode < 200 \/ frame.res.StatusCode > 299)) =>
        /\ frame.ret.kind = "APIError"
        /\ frame.ret.apierr.Response = frame.res
        /\ Undecodable(frame.res.Body) =>
               /\ frame.ret.apierr.Type = "Unknown"
               /\ frame.ret.apierr.Description
                      = "Oops! Something went wrong when parsing the error response."

\* A 404 with a body that is not JSON, and no output target.
C23_Witness ==
    /\ frame.fn = "unmarshall" /\ frame.pc = "returned"
    /\ frame.res.StatusCode = 404
    /\ ~frame.outGiven
    /\ frame.res.Body.syntax = "garbage"
    /\ frame.ret.kind = "APIError"
    /\ frame.ret.apierr.Type = "Unknown"

\* What the message of e is to hold, in order: the method, the URL and the
\* status code, then the type, the description and the details that are
\* present.
MessagePieces(e) ==
    <<e.Response.Request.Method, e.Response.Request.URL, ToString(e.Response.StatusCode)>>
    \o (IF e.Type # "" THEN <<e.Type>> ELSE <<>>)
    \o (IF e.Description # "" THEN <<e.Description>> ELSE <<>>)
    \o (IF ~e.Details.nil THEN <<FormatDetails(e.Details)>> ELSE <<>>)

\* The pieces occur in msg one after the other, from position from on.
RECURSIVE InOrder(_, _, _)
InOrder(msg, pieces, from) ==
    \/ pieces = <<>>
    \/ /\ IndexFrom(msg, Head(pieces), from) >= 0
       /\ InOrder(msg, Tail(pieces), IndexFrom(msg, Head(pieces), from) + Len(Head(pieces)))

RECURSIVE TotalLen(_)
TotalLen(pieces) == IF pieces = <<>> THEN 0 ELSE Len(Head(pieces)) + TotalLen(Tail(pieces))

\* The longest separator between two pieces of a message.
MaxSeparator == 2

\* C24: the message of an APIError holds the method, the resolved URL and
\* the status code of its response, then the type, the description and the
\* details, each exactly when it is present (non-empty type, non-empty
\* description, non-nil details), in that order, and nothing else but the
\* separators between them.
C24_ErrorMessage ==
    (frame.fn = "unmarshall" /\ frame.pc = "reported") =>
        /\ InOrder(frame.msg, MessagePieces(frame.ret.apierr), 0)
        /\ Index(frame.msg, frame.method) = 0
        /\ frame.ret.apierr.Response.Request.URL = ResolveReference(client.baseURL, frame.endpoint)
        /\ Len(frame.msg) <= TotalLen(MessagePieces(frame.ret.apierr))
                                 + MaxSeparator * (Len(MessagePieces(frame.ret.apierr)) - 1)

\* A 404 whose body gives a type, a description and details.
C24_Witness ==
    /\ frame.fn = "unmarshall" /\ frame.pc = "reported"
    /\ frame.method = "GET"
    /\ client.baseURL = "https://philhelp.zendesk.com"
    /\ frame.res.StatusCode = 404
    /\ frame.res.Body.error = "RecordInvalid"
    /\ frame.res.Body.description # ""
    /\ frame.res.Body.details = EmailDetails
    /\ frame.msg = "GET https://philhelp.zendesk.com/api/v2/tickets/1.json: 404 RecordInvalid: "
                       \o "Record validation errors: map[email:[BlankValue: Email: cannot be blank]]"

(***************************************************************************)
(* Two walker calls at once on one client.  A step of a call is one turn   *)
(* of its loop; the steps of the two calls interleave in any order.        *)
(***************************************************************************)
\* One step of getOneByOne as a function of the locals of the call, its log
\* and the choice made for the request of the step (lines 285-346).
OneStep(f, l, inj) ==
    IF f.pc = "call"
    THEN [frame |-> [f EXCEPT !.pc = IF request(TicketEndpoint(startID), inj) = NilResponse
                                     THEN "panic" ELSE "loop",
                              !.endpoint = TicketEndpoint(startID),
                              !.res = request(TicketEndpoint(startID), inj)],
          log |-> LoggedTo(l, TicketEndpoint(startID), inj)]
    ELSE IF ~(f.ticketID < endID)
    THEN [frame |-> [f EXCEPT !.pc = "done", !.ret = [records |-> f.result, err |-> "nil"]],
          log |-> l]
    ELSE IF f.res = NilResponse THEN [frame |-> [f EXCEPT !.pc = "panic"], log |-> l]
    ELSE IF f.res.StatusCode = 404
    THEN [frame |-> OneAdvance(f, inj), log |-> LoggedTo(l, TicketEndpoint(f.ticketID + 1), inj)]
    ELSE IF f.res.StatusCode = 429
    THEN LET after == ParseInt(f.res.RetryAfter)
         IN  IF after.err # "nil"
             THEN [frame |-> [f EXCEPT !.pc = "done", !.totalWaitTime = @ + after.val,
                                       !.ret = [records |-> <<>>, err |-> after.err]],
                   log |-> l]
             ELSE [frame |-> [f EXCEPT !.totalWaitTime = @ + after.val],
                   log |-> [l EXCEPT !.sleeps = Append(@, after.val)]]
    ELSE LET u == unmarshall(f.res, f.record)
         IN  IF u.err # "nil" THEN [frame |-> OneFatal(f, u.err), log |-> l]
             ELSE [frame |-> OneAdvance([f EXCEPT !.result = OneAppended(f, u.out)], inj),
                   log |-> LoggedTo(l, TicketEndpoint(f.ticketID + 1), inj)]

\* One step of a walker, whichever it is.
WalkStep(f, l, inj) ==
    IF f.fn = "getOneByOne" THEN OneStep(f, l, inj)
    ELSE IF f.pc = "call" THEN IncrStart(f, l, inj)
    ELSE IncrIterate(f, l, inj)

ConcWalkers == {"getOneByOne", "getTicketsIncrementally"}

ConcInjections == {"serve", "fail", "429 1", "429 "}

\* Rate-limit responses a call may meet.
ConcRateLimits == 1

\* The locals of a call that has not started.
ConcFrame(fn) ==
    IF fn = "getOneByOne"
    THEN [fn |-> fn, pc |-> "call", ticketID |-> startID, endpoint |-> "",
          res |-> NotFoundResponse, record |-> NewPayload, result |-> <<>>,
          totalWaitTime |-> 0, ret |-> NoRet]
    ELSE IncrFrame(fn)

\* The log of a call, with the choice made at each of its steps.
ConcLog == [requests |-> <<>>, responses |-> <<>>, sleeps |-> <<>>, injs |-> <<>>]

ConcInit ==
    /\ \E b \in Bases : client = [baseURL |-> b]
    /\ \E missing \in startID..endID, last \in {NoNext, 1} :
           server = [routes |->
                        [u \in {client.baseURL \o TicketEndpoint(id) : id \in startID..endID}
                               \cup {PageURL(fn, c) : fn \in CopiedWalkers, c \in 0..1} |->
                            IF \E id \in startID..endID : u = client.baseURL \o TicketEndpoint(id)
                            THEN LET id == CHOOSE i \in startID..endID : u = client.baseURL \o TicketEndpoint(i)
                                 IN  TicketResponse(id, IF id = missing THEN 404 ELSE 200)
                            ELSE LET p == CHOOSE p \in CopiedWalkers \X (0..1) : u = PageURL(p[1], p[2])
                                 IN  PageResponse(p[1], [len |-> 2, last |-> last], "overlap", p[2])]]
    /\ \E fn1 \in ConcWalkers, fn2 \in ConcWalkers :
           frame = [fn |-> "concurrent", calls |-> <<ConcFrame(fn1), ConcFrame(fn2)>>]
    /\ log = [calls |-> <<ConcLog, ConcLog>>]

\* Mutant: res is one variable that the calls share: a step works on the
\* response that the other call received last.
ConcLocalsSharedRes(calls, i) ==
    IF calls[i].pc = "loop" /\ calls[3 - i].pc = "loop"
    THEN [calls[i] EXCEPT !.res = calls[3 - i].res]
    ELSE calls[i]

\* The locals a step of call i works on: result, the cursor, totalWaitTime,
\* dataPerPage and res are declared in the body of the walker
\* (zendesk_client_service.go:285-311, zd_ticket_service.go:99-126).
ConcLocals(calls, i) == calls[i]

\* The fields of the client after a step of a walker: no walker assigns to
\* a field of c (lines 79-88 declare them, NewClient sets them).
ConcClient(c, f) == c

\* A step of call i.
ConcRun ==
    /\ frame.fn = "concurrent"
    /\ \E i \in 1..2, inj \in ConcInjections :
           LET f == ConcLocals(frame.calls, i)
               l == log.calls[i]
               r == WalkStep(f, l, inj)
               limited == Cardinality({k \in 1..Len(l.responses) : l.responses[k].StatusCode = 429})
           IN  /\ f.pc \in {"call", "loop"}
               /\ inj \in {"serve", "fail"} \/ limited < ConcRateLimits
               /\ Len(l.sleeps) < MaxSleeps
               /\ Len(r.log.requests) > Len(l.requests) \/ inj = "serve"
               /\ frame' = [frame EXCEPT !.calls[i] = r.frame]
               /\ log' = [log EXCEPT !.calls[i] = [r.log EXCEPT !.injs = Append(@, inj)]]
               /\ client' = ConcClient(client, r.frame)
    /\ UNCHANGED server

ConcNext == ConcRun

SpecConc == ConcInit /\ [][ConcNext]_vars

\* The call that runs alone: the steps of WalkStep from the start, with the
\* choices of injs.
RECURSIVE Alone(_, _, _)
Alone(f, l, injs) ==
    IF injs = <<>> THEN [frame |-> f, log |-> l]
    ELSE Alone(WalkStep(f, l, Head(injs)).frame,
               [WalkStep(f, l, Head(injs)).log EXCEPT !.injs = Append(@, Head(injs))],
               Tail(injs))

SlicingWalkers == CopiedWalkers \cup {prevPageWalker}

\* C26: in the walkers that request a slice of the continuation URL
\* (tickets, users and call legs incrementally, getAllTicketMetrics with
\* prevPage), whatever the base URL of the client, the request that follows
\* a page with a continuation reference resolves against the base URL to
\* that continuation reference.
C26_ContinuationReplayed ==
    \A j \in 2..Len(log.requests) :
        (/\ frame.fn \in SlicingWalkers
         /\ log.responses[j - 1].StatusCode = 200
         /\ log.responses[j - 1].NextPage # "") =>
            ResolveReference(client.baseURL, log.requests[j]) = log.responses[j - 1].NextPage

(***************************************************************************)
(* GetSatisfactionScores and the continuation reference.                   *)
(***************************************************************************)
\* C27: in getSatisfactionScores, the request that follows a decoded page
\* is for the continuation reference of that page, and a page with an empty
\* continuation reference is the last page requested.
C27_ScoresFollowContinuation ==
    \A j \in 1..Len(log.responses) :
        (frame.fn = "getSatisfactionScores" /\ log.responses[j].StatusCode = 200) =>
            /\ log.responses[j].NextPage = "" => j = Len(log.requests)
            /\ (log.responses[j].NextPage # "" /\ j < Len(log.requests)) =>
                   ResolveReference(client.baseURL, log.requests[j + 1]) = log.responses[j].NextPage

(***************************************************************************)
(* The requests of getOneByOne.                                            *)
(***************************************************************************)
NoRateLimit == \A i \in 1..Len(log.responses) : log.responses[i].StatusCode # 429

\* C28: when no response is a 429, the j-th request of getOneByOne is for
\* the identifier startID + j - 1, which is below endID (one request for
\* each identifier, in ascending order, none for endID or beyond), and a
\* call that returns without error has requested every identifier of
\* startID .. endID - 1.
C28_OneRequestPerIdentifier ==
    (frame.fn = "getOneByOne" /\ NoRateLimit) =>
        /\ \A j \in 1..Len(log.requests) :
               /\ log.requests[j] = TicketEndpoint(startID + j - 1)
               /\ startID + j - 1 < endID
        /\ (OneDone /\ frame.ret.err = "nil") => Len(log.requests) >= endID - startID

(***************************************************************************)
(* The step that handles a rate-limit response.                            *)
(***************************************************************************)
\* The cursor of a walker: the current page, or the current identifier.
Cursor(f) == IF f.fn = "getOneByOne" THEN ToString(f.ticketID) ELSE f.currentPage

\* C29: in getTicketsIncrementally, getUsersIncrementally,
\* getCallLegsIncrementally and getOneByOne, a step of the loop that finds
\* a 429 in res leaves the accumulated records and the cursor (the current
\* page, the current identifier) as they were.
C29_RateLimitIsNoAdvance ==
    [][(/\ frame.fn \in CopiedWalkers \cup {"getOneByOne"}
        /\ frame.pc = "loop"
        /\ frame.res.StatusCode = 429) =>
           /\ frame'.result = frame.result
           /\ Cursor(frame') = Cursor(frame)]_vars

\* A 429 was slept on after a page was accumulated, and the walk goes on.
C29_Witness ==
    /\ frame.fn \in CopiedWalkers
    /\ frame.pc = "loop"
    /\ frame.result # <<>>
    /\ Len(log.sleeps) >= 1
    /\ Len(log.responses) >= 3
    /\ log.responses[2].StatusCode = 429
    /\ frame.currentPage = log.responses[1].NextPage

(***************************************************************************)
(* The wait counter.                                                       *)
(***************************************************************************)
\* The sum of the Retry-After values of the 429 responses among the first n
\* responses of the call.
RECURSIVE RetryAfterSum(_)
RetryAfterSum(n) ==
    IF n = 0 THEN 0
    ELSE RetryAfterSum(n - 1)
             + (IF log.responses[n].StatusCode = 429
                THEN ParseInt(log.responses[n].RetryAfter).val ELSE 0)

\* C30: in every walker with a wait counter, totalWaitTime is at every
\* point of the call the sum of the Retry-After values of the 429 responses
\* handled so far (all the responses received, the last one handled or
\* not yet), and no step lowers it.
C30_WaitAccounting ==
    /\ []("totalWaitTime" \in DOMAIN frame =>
             \/ frame.totalWaitTime = RetryAfterSum(Len(log.responses))
             \/ (Len(log.responses) > 0
                 /\ frame.totalWaitTime = RetryAfterSum(Len(log.responses) - 1)))
    /\ [][("totalWaitTime" \in DOMAIN frame) => frame'.totalWaitTime >= frame.totalWaitTime]_vars

(***************************************************************************)
(* The page budget of the satisfaction-score walkers.                      *)
(***************************************************************************)
\* The requests a call may issue.
PageBudget(fn) == IF fn = "getSatisfactionScores" THEN numberOfPages ELSE satPageBudget

PageBudgetWalkers == {"getSatisfactionScores", "getSatisfactionScoresIncrementally"}

\* C31: whatever the server returns, a call of getSatisfactionScores has
\* issued at most 50 requests and a call of
\* getSatisfactionScoresIncrementally at most 10; while the call is in its
\* loop a step is possible, and every step of the loop either ends the loop
\* or issues one more request, so the call ends after at most that many
\* steps.
C31_PageBudget ==
    /\ [](frame.fn \in PageBudgetWalkers =>
             /\ Len(log.requests) <= PageBudget(frame.fn)
             /\ frame.pc = "loop" => (ENABLED ScoresLoop \/ ENABLED SatLoop))
    /\ [][(frame.fn \in PageBudgetWalkers /\ frame.pc = "loop") =>
              \/ frame'.pc # "loop"
              \/ Len(log'.requests) = Len(log.requests) + 1]_vars

\* An export that never ends its page chain: the call returns after its
\* tenth request.
C31_Witness ==
    /\ frame.fn = "getSatisfactionScoresIncrementally"
    /\ frame.pc = "done"
    /\ Len(log.requests) = satPageBudget
    /\ log.responses[satPageBudget].NextPage # ""
    /\ \A i \in 1..Len(log.responses) : log.responses[i].StatusCode = 200

(***************************************************************************)
(* The bound on the requests of do.                                        *)
(***************************************************************************)
\* The response to the second request of do carries Retry-After or has the
\* status 429.
SecondRateLimited ==
    /\ Len(log.responses) = 2
    /\ log.responses[2] # Seen(NilResponse)
    /\ (log.responses[2].RetryAfter # "" \/ log.responses[2].StatusCode = 429)

\* do makes no third request and no second sleep, and returns what
\* unmarshall makes of the second response.
SecondIsOutcome ==
    /\ Len(log.requests) = 2
    /\ Len(log.sleeps) = 1
    /\ frame.pc = "done"
    /\ ~ENABLED DoNext
    /\ frame.ret.err = unmarshall(server.script[2], NewPayload).err
    /\ frame.ret.out = unmarshall(server.script[2], NewPayload).out

PairInit ==
    /\ \E b \in AllBases : client = [baseURL |-> b]
    /\ \E scheme \in Schemes, chain \in {ch \in Chains : ch.last = NoNext} :
           server = [chain |-> chain, scheme |-> scheme,
                     routes |-> AllRoutes("getAllTicketMetrics", chain, scheme)]
    /\ frame = [fn |-> "pair",
                calls |-> <<AllFrame("getAllTicketMetrics"), AllFrame(prevPageWalker)>>]
    /\ log = [calls |-> <<NoLog, NoLog>>]

\* A step of the implementation of lines 66-122.
PairAware ==
    /\ frame.fn = "pair" /\ frame.calls[1].pc \in {"call", "loop"}
    /\ LET r == IF frame.calls[1].pc = "call"
                THEN AllStart(frame.calls[1], log.calls[1], "serve")
                ELSE AllIterate(frame.calls[1], log.calls[1], "serve")
       IN  /\ frame' = [frame EXCEPT !.calls[1] = r.frame]
           /\ log' = [log EXCEPT !.calls[1] = r.log]
    /\ UNCHANGED <<client, server>>

\* A step of the implementation of lines 186-221.
PairPrev ==
    /\ frame.fn = "pair" /\ frame.calls[2].pc \in {"call", "loop"}
    /\ LET r == IF frame.calls[2].pc = "call"
                THEN MetricsStart(frame.calls[2], log.calls[2], "serve")
                ELSE MetricsIterate(frame.calls[2], log.calls[2], "serve")
       IN  /\ frame' = [frame EXCEPT !.calls[2] = r.frame]
           /\ log' = [log EXCEPT !.calls[2] = r.log]
    /\ UNCHANGED <<client, server>>

PairNext == PairAware \/ PairPrev

SpecPair == PairInit /\ [][PairNext]_vars

PairEnded == frame.fn = "pair" /\ \A i \in 1..2 : frame.calls[i].pc \in {"done", "panic"}

\* C33: on every finite page chain that ends with an empty continuation
\* reference, served without rate-limiting and without errors, the two
\* implementations of getAllTicketMetrics both return, have issued the same
\* sequence of requests, and return the same records and the same error.
C33_MetricsImplementationsAgree ==
    PairEnded =>
        /\ \A i \in 1..2 : frame.calls[i].pc = "done"
        /\ log.calls[1].requests = log.calls[2].requests
        /\ frame.calls[1].ret = frame.calls[2].ret

(***************************************************************************)
(* Client headers: NewURLClient, WithHeader and the header part of         *)
(* request (zendesk_client_service.go lines 119-183).                      *)
(***************************************************************************)
LowerLetters == "abcdefghijklmnopqrstuvwxyz"
UpperLetters == "ABCDEFGHIJKLMNOPQRSTUVWXYZ"

ToUpper(ch) ==
    IF \E i \in 1..26 : SubSeq(LowerLetters, i, i) = ch
    THEN LET i == CHOOSE i \in 1..26 : SubSeq(LowerLetters, i, i) = ch
         IN  SubSeq(UpperLetters, i, i)
    ELSE ch

ToLower(ch) ==
    IF \E i \in 1..26 : SubSeq(UpperLetters, i, i) = ch
    THEN LET i == CHOOSE i \in 1..26 : SubSeq(UpperLetters, i, i) = ch
         IN  SubSeq(LowerLetters, i, i)
    ELSE ch

\* textproto.CanonicalMIMEHeaderKey, which http.Header.Set applies to the
\* key: the first letter and every letter after a hyphen in upper case, the
\* other letters in lower case.
RECURSIVE CanonicalFrom(_, _, _)
CanonicalFrom(name, i, upper) ==
    IF i > Len(name) THEN ""
    ELSE LET ch == SubSeq(name, i, i)
         IN  (IF upper THEN ToUpper(ch) ELSE ToLower(ch))
                 \o CanonicalFrom(name, i + 1, ch = "-")

CanonicalMIMEHeaderKey(name) == CanonicalFrom(name, 1, TRUE)

\* req.Header.Set(key, value)
HeaderSet(h, key, value) ==
    LET k == CanonicalMIMEHeaderKey(key)
    IN  [x \in DOMAIN h \cup {k} |-> IF x = k THEN value ELSE h[x]]

\* The orders in which a range statement may visit the keys of a map.
RangeOrders(m) ==
    LET n == Cardinality(DOMAIN m)
    IN  {o \in [1..n -> DOMAIN m] : \A a, b \in 1..n : a # b => o[a] # o[b]}

RECURSIVE SetInOrder(_, _, _, _)
SetInOrder(h, m, order, i) ==
    IF i > Len(order) THEN h
    ELSE SetInOrder(HeaderSet(h, order[i], m[order[i]]), m, order, i + 1)

userAgent == "PHIL-Zendesk"
BasicAuth == "Basic dXNlcjpwYXNz"

\* The headers argument the operations pass to request.
CallHeaders(in) ==
    IF in # "nil" THEN MapSet(EmptyMap, "Content-Type", "application/json") ELSE EmptyMap

\* The header of the request handed to c.reqFunc, when the two range
\* statements visit the keys in the given orders.
RequestHeader(headers, order, in) ==
    LET auth == HeaderSet(HeaderSet(EmptyMap, "Authorization", BasicAuth),
                          "User-Agent", userAgent)
        own  == SetInOrder(auth, headers, order, 1)
        call == CallHeaders(in)
    IN  SetInOrder(own, call, CHOOSE o \in RangeOrders(call) : TRUE, 1)

MaxClients == 3
MaxSent == 1
HeaderNames == {"X-Trace", "x-trace", "Content-Type"}
HeaderValues == {"1", "2"}

\* One client fresh from NewURLClient.
HeaderInit ==
    /\ client = [clients |-> <<[headers |-> EmptyMap]>>]
    /\ server = [script |-> <<>>]
    /\ frame = [fn |-> "WithHeader", made |-> <<[receiver |-> 0]>>]
    /\ log = [requests |-> <<>>]

\* The clients after clients[c].WithHeader(name, value): the new client is
\* the last one.
WithHeader(clients, c, name, value) ==
    Append(clients, [headers |-> MapSet(clients[c].headers, name, value)])

HeaderWith ==
    /\ frame.fn = "WithHeader"
    /\ Len(client.clients) < MaxClients
    /\ \E c \in 1..Len(client.clients), name \in HeaderNames, value \in HeaderValues :
           /\ client' = [client EXCEPT !.clients = WithHeader(@, c, name, value)]
           /\ frame' = [frame EXCEPT !.made =
                            Append(@, [receiver |-> c, name |-> name, value |-> value,
                                       had |-> client.clients[c].headers])]
    /\ UNCHANGED <<server, log>>

\* A request through one of the clients, with or without a body.
HeaderRequest ==
    /\ frame.fn = "WithHeader"
    /\ Len(log.requests) < MaxSent
    /\ \E c \in 1..Len(client.clients), in \in {"nil", "body"} :
         \E order \in RangeOrders(client.clients[c].headers) :
           log' = [log EXCEPT !.requests =
                       Append(@, [via |-> c, in |-> in,
                                  Header |-> RequestHeader(client.clients[c].headers, order, in)])]
    /\ UNCHANGED <<client, server, frame>>

HeaderNext == HeaderWith \/ HeaderRequest

SpecHeader == HeaderInit /\ [][HeaderNext]_vars

\* The request header carries name: value.
Carries(h, name, value) ==
    LET k == CanonicalMIMEHeaderKey(name)
    IN  k \in DOMAIN h /\ h[k] = value

\* The headers a client has now are the ones it had when it was made.
ReceiverUntouched ==
    \A c \in 1..Len(client.clients) :
        client.clients[c].headers =
            IF c = 1 THEN EmptyMap
            ELSE MapSet(frame.made[c].had, frame.made[c].name, frame.made[c].value)

\* C34: WithHeader does not modify its receiver.  After
\* c2 = c.WithHeader(name, value), whatever WithHeader calls follow on c or
\* on c2, every request sent through c2 carries name: value and every
\* header c had at the time of the call, and c keeps the headers it had.
C34_WithHeaderLeavesReceiver ==
    frame.fn = "WithHeader" =>
        /\ ReceiverUntouched
        /\ \A i \in 1..Len(log.requests) :
             LET r == log.requests[i]
                 made == frame.made[r.via]
             IN  r.via > 1 =>
                   /\ Carries(r.Header, made.name, made.value)
                   /\ \A k \in DOMAIN made.had :
                          CanonicalMIMEHeaderKey(k) # CanonicalMIMEHeaderKey(made.name)
                              => Carries(r.Header, k, made.had[k])

(***************************************************************************)
(* Middleware: NewURLClient wraps the transport (lines 119-142) and        *)
(* request hands the request to c.reqFunc (line 182).  A request function  *)
(* is modelled by the list of the middleware it runs through, outermost    *)
(* first; the empty list is http.DefaultClient.Do.  middleware[i] of the   *)
(* source is element i + 1 of the sequence.                                *)
(***************************************************************************)
MaxMiddleware == 3
MaxTrips == 2

\* A middleware either hands the request on to the function it wraps, or
\* answers it itself.
MiddlewareKinds == {"pass", "answer"}

DefaultClientDo == <<>>

RECURSIVE WrapAscending(_, _, _)
WrapAscending(middleware, i, reqFunc) ==
    IF i > Len(middleware) THEN reqFunc
    ELSE WrapAscending(middleware, i + 1, <<i>> \o reqFunc)

\* for i := len(middleware) - 1; i >= 0; i-- { c.reqFunc = middleware[i](c.reqFunc) }
RECURSIVE WrapDescending(_, _, _)
WrapDescending(middleware, i, reqFunc) ==
    IF i < 1 THEN reqFunc
    ELSE WrapDescending(middleware, i - 1, <<i>> \o reqFunc)

NewReqFuncAscending(middleware) == WrapAscending(middleware, 1, DefaultClientDo)

\* c.reqFunc as NewURLClient leaves it.
NewReqFunc(middleware) == WrapDescending(middleware, Len(middleware), DefaultClientDo)

MiddlewareInit ==
    /\ \E n \in 0..MaxMiddleware : \E middleware \in [1..n -> MiddlewareKinds] :
           /\ client = [reqFunc |-> NewReqFunc(middleware)]
           /\ frame = [fn |-> "request", middleware |-> middleware, pc |-> "idle", depth |-> 0]
    /\ server = [script |-> <<>>]
    /\ log = [trips |-> <<>>]

Event(kind, m) == [kind |-> kind, m |-> m]

TripLogged(l, e) == [l EXCEPT !.trips[Len(l.trips)] = Append(@, e)]

\* request: return c.reqFunc(req)
MiddlewareRequest ==
    /\ frame.fn = "request" /\ frame.pc = "idle"
    /\ Len(log.trips) < MaxTrips
    /\ frame' = [frame EXCEPT !.pc = "call", !.depth = 0]
    /\ log' = [log EXCEPT !.trips = Append(@, <<>>)]
    /\ UNCHANGED <<client, server>>

\* The request function at this depth is a middleware: it sees the request,
\* and calls the function it wraps or answers.
MiddlewareEnter ==
    /\ frame.fn = "request" /\ frame.pc = "call"
    /\ frame.depth < Len(client.reqFunc)
    /\ LET m == client.reqFunc[frame.depth + 1]
       IN  /\ log' = TripLogged(log, Event("request", m))
           /\ frame' = IF frame.middleware[m] = "pass"
                       THEN [frame EXCEPT !.depth = @ + 1]
                       ELSE [frame EXCEPT !.depth = @ + 1, !.pc = "return"]
    /\ UNCHANGED <<client, server>>

\* The request function at this depth is http.DefaultClient.Do.
MiddlewareTransport ==
    /\ frame.fn = "request" /\ frame.pc = "call"
    /\ frame.depth = Len(client.reqFunc)
    /\ \E inj \in {"serve", "fail"} : log' = TripLogged(log, Event(inj, 0))
    /\ frame' = [frame EXCEPT !.pc = "return"]
    /\ UNCHANGED <<client, server>>

\* The wrapped function has returned: the middleware sees the response and
\* returns; past the outermost one, request returns.
MiddlewareReturn ==
    /\ frame.fn = "request" /\ frame.pc = "return"
    /\ IF frame.depth = 0
       THEN /\ frame' = [frame EXCEPT !.pc = "idle"]
            /\ log' = log
       ELSE /\ log' = TripLogged(log, Event("response", client.reqFunc[frame.depth]))
            /\ frame' = [frame EXCEPT !.depth = @ - 1]
    /\ UNCHANGED <<client, server>>

MiddlewareNext ==
    \/ MiddlewareRequest
    \/ MiddlewareEnter
    \/ MiddlewareTransport
    \/ MiddlewareReturn

SpecMiddleware == MiddlewareInit /\ [][MiddlewareNext]_vars

\* How far a request gets: the first middleware that answers, or all of them.
Reach(middleware) ==
    IF \E i \in 1..Len(middleware) : middleware[i] = "answer"
    THEN CHOOSE i \in 1..Len(middleware) :
             /\ middleware[i] = "answer"
             /\ \A j \in 1..(i - 1) : middleware[j] = "pass"
    ELSE Len(middleware)

AllPass(middleware) == \A i \in 1..Len(middleware) : middleware[i] = "pass"

IsPrefix(s, t) == Len(s) <= Len(t) /\ s = SubSeq(t, 1, Len(s))

\* The trip in the order of the claim: m0, m1, ... see the request, then the
\* transport, then the response goes back the other way.
InClaimedOrder(trip, middleware) ==
    LET n == Reach(middleware)
        out == [i \in 1..n |-> Event("request", i)]
        back == [i \in 1..n |-> Event("response", n + 1 - i)]
    IN  IF AllPass(middleware)
        THEN \E inj \in {"serve", "fail"} :
                 IsPrefix(trip, out \o <<Event(inj, 0)>> \o back)
        ELSE IsPrefix(trip, out \o back)

TripOver(i) == i < Len(log.trips) \/ frame.pc = "idle"

\* C35: a request of a client built with middleware m0, ..., mk passes
\* through m0 first, then m1, ..., then mk, and only then reaches the
\* transport; the response travels back in the reverse order; without
\* middleware the request goes straight to the transport.
C35_MiddlewareOrder ==
    frame.fn = "request" =>
        \A i \in 1..Len(log.trips) :
            /\ InClaimedOrder(log.trips[i], frame.middleware)
            /\ TripOver(i) =>
                   Len(log.trips[i]) = 2 * Reach(frame.middleware)
                                          + (IF AllPass(frame.middleware) THEN 1 ELSE 0)

C35_Witness ==
    /\ frame.fn = "request" /\ frame.pc = "idle"
    /\ Len(frame.middleware) = 3 /\ AllPass(frame.middleware)
    /\ Len(log.trips) >= 1
    /\ log.trips[1] = <<Event("request", 1), Event("request", 2), Event("request", 3),
                        Event("serve", 0),
                        Event("response", 3), Event("response", 2), Event("response", 1)>>

====
